---- MODULE Spec2Model ----
(***************************************************************************)
(* Agent Conversation Orchestrator of llm_docs: the four entry points      *)
(*   GenerateAnswerInteractor.execute / execute_stream   (Ollama)          *)
(*   OpenAIGenerateInteractor.execute / execute_stream   (OpenAI)          *)
(* run against one chat of the Conversation Store.  The language model and *)
(* the tools are the environment: every awaited call picks its outcome     *)
(* from a small set.  Texts are abstracted to (origin, length) pairs; an   *)
(* Optional[T] field is a sequence of length 0 (None) or 1.                *)
(***************************************************************************)
EXTENDS Integers, Sequences, FiniteSets, TLC

(***************************** bounds **************************************)
\* tool invocations the model may request in one response
MaxToolCalls == 2
\* environment choices of one run that depart from the plain script (the
\* model answers with a text or asks for one search_documents invocation
\* with decodable arguments, the tool returns a short text)
MaxVariations == 2
\* length of a short text produced by the model or a tool
ShortLen == 3
\* chunks one model stream delivers
MaxChunks == 2
\* most hits a search asks the gateway for (the limit of the request)
MaxHits == 3

(************************ program constants ********************************)
max_iterations == 5
max_retries == 2
max_tool_response_length == 8000
max_chunks == 500
max_accumulated == 10000
\* len("\n\n[... response truncated due to length ...]")
TruncationMarkerLen == 44

Orchestrators == {"ollama", "ollama_stream", "openai", "openai_stream"}
Streaming == {"ollama_stream", "openai_stream"}

\* keys of available_tools_dict
available_tools_dict ==
    {"search_documents", "get_document_by_id", "query_documents",
     "search_documents_by_keywords", "search_rules", "get_rule_by_id"}

(***************************** texts ***************************************)
Text(src, n) == [src |-> src, len |-> n]
\* a fixed, non-empty literal of the source
Fixed(src) == Text(src, 1)
Empty == Text("model", 0)
IsEmpty(t) == t.len = 0

TIMEOUT_APOLOGY == Fixed("timeout_apology")
STREAM_INIT_APOLOGY == Fixed("stream_init_apology")
NO_ANSWER == Fixed("no_answer")
PLACEHOLDER == Fixed("placeholder")
PLACEHOLDER_OPENAI == Fixed("placeholder_openai")
ERROR_MESSAGE == Fixed("error_message")
INSUFFICIENT_INFO == Fixed("insufficient_info")

(************************ environment choices ******************************)
\* argument text of a requested invocation, as a sequence of characters
ArgTexts == {<<"{", "}">>, <<"{">>, <<"}">>, <<>>}
\* json.loads succeeds on the argument text
Decodes(args) == args = <<"{", "}">>

ToolNames == {"search_documents", "search_rules", "no_such_tool"}
Request == [name : ToolNames, args : ArgTexts]
\* the Ollama client hands the arguments over as a mapping already
OllamaRequest == {r \in Request : Decodes(r.args)}

ReqCost(r) ==
    (IF r.name = "search_documents" THEN 0 ELSE 1)
    + (IF Decodes(r.args) THEN 0 ELSE 1)

RECURSIVE SeqCost(_)
SeqCost(rs) == IF rs = <<>> THEN 0 ELSE ReqCost(Head(rs)) + SeqCost(Tail(rs))

\* the request sequences of length n whose requests cost at most b in all
RECURSIVE SeqsOf(_, _, _)
SeqsOf(R, n, b) ==
    IF n = 0 THEN {<<>>}
    ELSE UNION {{<<r>> \o t : t \in SeqsOf(R, n - 1, b - ReqCost(r))} :
                r \in {x \in R : ReqCost(x) <= b}}

\* the request sequences a response may carry within budget b: every
\* invocation after the first one of a response is a variation
RequestSeqs(R, b) ==
    UNION {SeqsOf(R, n, b - (IF n > 1 THEN n - 1 ELSE 0)) :
           n \in {m \in 0..MaxToolCalls : m <= b + 1}}

\* a complete model response: content and requested invocations
Response(R, b) ==
    [content : {Empty, Text("model", ShortLen)}, tools : RequestSeqs(R, b)]
RespCost(r) ==
    SeqCost(r.tools)
    + (IF Len(r.tools) > 1 THEN Len(r.tools) - 1 ELSE 0)
    + (IF (r.tools = <<>>) = IsEmpty(r.content) THEN 1 ELSE 0)

\* what a resolved tool does: raise, or return an output of a given shape
\*   text      List[TextContent] or any other value
\*   docs      legacy list of per-document dicts with well-formed best_chunks
\*   docs_bad  the same with a best_chunks entry that is no mapping
OutLens == {ShortLen, max_tool_response_length, max_tool_response_length + 1}
\*   gateway   the embedding or the vector-search gateway failed inside the
\*             tool, whose handler returns the error as a TextContent
ToolOutcome == [kind : {"raise", "text", "docs", "docs_bad", "gateway"}, len : OutLens]
OutcomeCost(o) ==
    (IF o.kind = "text" THEN 0 ELSE 1) + (IF o.len = ShortLen THEN 0 ELSE 1)
ToolOutcomes == {o \in ToolOutcome : o.kind \in {"raise", "gateway"} => o.len = ShortLen}

(***************************** records *************************************)
None == <<>>
Some(x) == <<x>>

\* dto.chat.ToolCall
ToolCall(name, success, output, error) ==
    [name |-> name, success |-> success, output |-> output, error |-> error]

\* a message of the model-facing history; for a tool message: keep = number
\* of characters of the tool output carried, marker = the truncation marker
\* follows them, raw = length of the tool output before any cut
Msg(role, ntools) ==
    [role |-> role, ntools |-> ntools, keep |-> 0, marker |-> FALSE, raw |-> 0]
ToolMsg(keep, marker, raw) ==
    [role |-> "tool", ntools |-> 0, keep |-> keep, marker |-> marker, raw |-> raw]

\* services.chat_storage.ChatMessage
ChatMessage(role, content, metadata) ==
    [role |-> role, content |-> content, metadata |-> metadata]
Metadata(srcs, tcs, reasoning) ==
    [sources |-> srcs, tool_calls |-> tcs, reasoning |-> reasoning]

Event(type, n) == [type |-> type, n |-> n]

VARIABLES
    orch,                \* which entry point serves the request
    pc,                  \* position of the run
    chat_history,        \* chat_histories[chat_id]
    messages,            \* chat_storage chat.messages of the chat
    is_first_message,
    iteration,
    retry_count,
    response,            \* Optional: the last model response / chunk
    pending,             \* invocations of the round not yet processed
    accumulated_tool_calls,
    has_successful_tool,
    tool_calls,          \* tool_calls / tool_calls_list
    sources,
    reasoning,
    bound,               \* sources and tool_calls_list are bound names
    final_content,
    accumulated_content, \* length accumulated from the stream
    content_started,
    chunk_count,
    events,              \* events sent to the caller of a streaming run
    outcome,             \* what the caller of the entry point got
    title_tasks,         \* title-generation tasks scheduled
    variations,          \* environment variations used so far
    roundLog,            \* history: per Thinking round, the invocations
                         \* requested (n), returned by their tool (ret) and
                         \* recorded with success = true (ok)
    llmFaults,           \* history: how model calls of the run failed
    streamFailed,        \* history: the model stream raised mid-consumption
    exitWhy,             \* history: why the agent loop was left
    chat_histories,      \* per module, chat_histories.get(chat_id) while no
                         \* run of the module holds the list as chat_history
    shapeLog,            \* history: positions in tool_calls of the invocations
                         \* whose tool returned a list of per-document
                         \* records, with the kind of the list
    retrievalFailed,     \* history: positions in tool_calls of the invocations
                         \* during which a retrieval gateway failed
    flows,               \* concurrent requests: position, entry point, chat
                         \* id, is_first_message, Acting round made, title
                         \* task, how the run ended, the list held as
                         \* chat_history once clear_chat_history has replaced
                         \* the entry it was taken from (stale), the requests
                         \* that hold the same list (with), (history) its
                         \* length when it was replaced (cut), (history) the
                         \* roles the flow has produced, (history) what its
                         \* calls of the store returned and (history) the
                         \* same request served alone
    chat,                \* chat_storage._chats: per chat id, messages (each
                         \* tagged with the flow that added it) and title
    histories,           \* per chat id and module, chat_histories.get(chat_id)
                         \* as the concurrent requests see it
    search,              \* a run of the retrieval engine: position, caller,
                         \* arguments, what the gateway was asked for and
                         \* returned, and the result
    received,            \* history: the tool-call fragments a stream taken
                         \* alone has delivered, in arrival order
    rule_store,          \* the rules table (committed rows, row locks), the
                         \* points of the rules embedding collection per
                         \* rule id, and the rule requests being served
    document_store       \* the documents table, the points of the documents
                         \* embedding collection per document id, and the
                         \* delete requests being served

vars == <<orch, pc, chat_history, messages, is_first_message, iteration,
          retry_count, response, pending, accumulated_tool_calls,
          has_successful_tool, tool_calls,
          sources, reasoning, bound, final_content, accumulated_content,
          content_started, chunk_count, events, outcome, title_tasks,
          variations, roundLog, llmFaults, streamFailed, exitWhy,
          chat_histories, retrievalFailed, shapeLog, flows, chat, histories, search,
          received, rule_store, document_store>>

\* what the steps of a run leave alone
kept == <<chat_histories, retrievalFailed, shapeLog, flows, chat, histories, search,
          received, rule_store, document_store>>

\* the module whose chat_histories an entry point uses
Modules == {"generate", "openai_generate"}
Module(o) == IF o \in {"ollama", "ollama_stream"} THEN "generate" ELSE "openai_generate"

Left == MaxVariations - variations

NoOutcome == [kind |-> "none", content |-> Empty, sources |-> <<>>, tool_calls |-> <<>>]
Outcome(kind, content, srcs, tcs) ==
    [kind |-> kind, content |-> content, sources |-> srcs, tool_calls |-> tcs]

\* the two requests served concurrently, the chat ids of the store they may
\* name, and a request that has not been received yet
Flows == {1, 2}
ChatIds == {1, 2}
NoChat == [messages |-> <<>>, title |-> 0, exists |-> TRUE]
Alone == [history |-> <<>>, chat |-> NoChat, first |-> FALSE, title |-> "none",
          outcome |-> "none"]
Idle == [pc |-> "idle", orch |-> "none", cid |-> 0, first |-> FALSE,
         acted |-> FALSE, title |-> "none", outcome |-> "none",
         stale |-> None, with |-> {}, cut |-> 0,
         produced |-> <<>>, returned |-> <<>>, alone |-> Alone]

\* the rules and the documents the stores may hold, and the requests on
\* them that are served concurrently
RuleIds == {1, 2}
RuleOps == {1, 2}
DocumentOps == {1, 2}
StoredDocuments == {1, 2}

\* rule 1 is stored with its point, rule 2 has not been created; no request
NoOp == [kind |-> "none", pc |-> "idle", id |-> 0, data |-> FALSE, wrote |-> FALSE]
NoRuleRequests ==
    [rows |-> {1},
     points |-> [r \in RuleIds |-> IF r = 1 THEN 1 ELSE 0],
     lock |-> [r \in RuleIds |-> 0],
     ops |-> [o \in RuleOps |-> NoOp]]

\* document 1 is stored with two chunks, document 2 with one; no request
NoDeleteRequests ==
    [rows |-> StoredDocuments,
     points |-> [d \in StoredDocuments |-> IF d = 1 THEN 2 ELSE 1],
     lock |-> [d \in StoredDocuments |-> 0],
     ops |-> [o \in DocumentOps |-> NoOp]]

\* no search has been requested
NoSearch == [pc |-> "idle", via |-> "none", query |-> <<>>, limit |-> 0,
             requested |-> 0, hits |-> <<>>, known |-> {}, chunks |-> <<>>,
             result |-> <<>>, text |-> <<>>]

\* state after construction: the chat exists in the store with no message and
\* has no model-facing history yet beyond the system prompt the first run adds
Init ==
    /\ orch \in Orchestrators
    /\ pc = "init"
    /\ chat_history = <<>>
    /\ messages = <<>>
    /\ is_first_message = FALSE
    /\ iteration = 0
    /\ retry_count = 0
    /\ response = None
    /\ pending = <<>>
    /\ accumulated_tool_calls = <<>>
    /\ has_successful_tool = FALSE
    /\ tool_calls = <<>>
    /\ sources = <<>>
    /\ reasoning = None
    /\ bound = FALSE
    /\ final_content = Empty
    /\ accumulated_content = 0
    /\ content_started = FALSE
    /\ chunk_count = 0
    /\ events = <<>>
    /\ outcome = NoOutcome
    /\ title_tasks = 0
    /\ variations = 0
    /\ roundLog = <<>>
    /\ llmFaults = {}
    /\ streamFailed = FALSE
    /\ exitWhy = "none"
    /\ chat_histories = [m \in Modules |-> None]
    /\ retrievalFailed = {}
    /\ shapeLog = {}
    /\ flows = [f \in Flows |-> Idle]
    /\ chat = [c \in ChatIds |-> NoChat]
    /\ histories = [c \in ChatIds |-> [m \in Modules |-> None]]
    /\ search = NoSearch
    /\ received = <<>>
    /\ rule_store = NoRuleRequests
    /\ document_store = NoDeleteRequests


(************************* shared helpers **********************************)
\* tool_response[:max_tool_response_length] + marker when it is too long
Truncate(n) ==
    IF n > max_tool_response_length
    THEN [keep |-> max_tool_response_length, marker |-> TRUE]
    ELSE [keep |-> n, marker |-> FALSE]

\* length of the tool output as it stands in a tool message
CarriedLen(m) == m.keep + (IF m.marker THEN TruncationMarkerLen ELSE 0)

\* Source records taken from one search_documents output
Source(k) == [invocation |-> k]

Effect(tc, ok, msgs, srcs, evs) ==
    [tc |-> tc, ok |-> ok, msgs |-> msgs, srcs |-> srcs, evs |-> evs]

Count(tcs) == Cardinality({i \in 1..Len(tcs) : tcs[i].success})

\* history: open the log entry of a Thinking round / record its response
\* (unk = the requested invocations whose name is in no registry)
LogRound(log) == Append(log, [n |-> 0, unk |-> 0, ret |-> 0, ok |-> 0])
LogRequested(log, tools) ==
    [log EXCEPT ![Len(log)].n = Len(tools),
                ![Len(log)].unk =
                    Cardinality({i \in 1..Len(tools) :
                                   tools[i].name \notin available_tools_dict})]
LogResult(log, e) ==
    [log EXCEPT ![Len(log)].ret = @ + (IF e.ok THEN 1 ELSE 0),
                ![Len(log)].ok = @ + (IF e.tc.success THEN 1 ELSE 0)]

\* history: invocation k ran into a failing retrieval gateway
ShapeLog(log, out, k) ==
    IF out.kind \in {"docs", "docs_bad"} THEN log \cup {<<k, out.kind>>} ELSE log
GatewayLog(failed, out, k) == IF out.kind = "gateway" THEN failed \cup {k} ELSE failed

\* the outcome of an invocation is chosen only when the name resolves
OutcomeChoices(req) ==
    IF req.name \in available_tools_dict
    THEN {o \in ToolOutcomes : OutcomeCost(o) <= Left}
    ELSE {[kind |-> "text", len |-> ShortLen]}

(************************** Init state (all) *******************************)
\* (variant: the user message is put in front of the history)
Begin_UserFirst ==
    /\ pc = "init"
    /\ messages' = Append(messages, ChatMessage("user", Text("user", ShortLen), None))
    /\ chat_history' =
          <<Msg("user", 0)>> \o
          (IF chat_histories[Module(orch)] = None
           THEN <<Msg("system", 0)>>
           ELSE chat_histories[Module(orch)][1])
    /\ is_first_message' = (Len(chat_history') = 2)
    /\ events' = IF orch \in Streaming THEN <<Event("start", 0)>> ELSE events
    /\ bound' = (orch # "openai")
    /\ pc' = "loop"
    /\ UNCHANGED <<orch, kept, accumulated_tool_calls, iteration, retry_count, response, pending,
                   has_successful_tool, tool_calls, sources, reasoning,
                   final_content, accumulated_content, content_started,
                   chunk_count, outcome, title_tasks, variations, roundLog,
                   llmFaults, streamFailed, exitWhy>>

\* load or create the history, persist and append the user message, and in
\* a streaming run send start
Begin ==
    /\ pc = "init"
    /\ messages' = Append(messages, ChatMessage("user", Text("user", ShortLen), None))
    /\ chat_history' =
          Append(IF chat_histories[Module(orch)] = None
                 THEN <<Msg("system", 0)>>
                 ELSE chat_histories[Module(orch)][1],
                 Msg("user", 0))
    /\ is_first_message' = (Len(chat_history') = 2)
    /\ events' = IF orch \in Streaming THEN <<Event("start", 0)>> ELSE events
    /\ bound' = (orch # "openai")
    /\ pc' = "loop"
    /\ UNCHANGED <<orch, kept, accumulated_tool_calls, iteration, retry_count, response, pending,
                   has_successful_tool, tool_calls, sources, reasoning,
                   final_content, accumulated_content, content_started,
                   chunk_count, outcome, title_tasks, variations, roundLog,
                   llmFaults, streamFailed, exitWhy>>

(******************* GenerateAnswerInteractor.execute **********************)
\* (variant: a name that does not resolve is recorded as a success)
OllamaInvoke_Unresolved(req, out, k) ==
    IF req.name \notin available_tools_dict
    THEN Effect(ToolCall(req.name, TRUE, None, None), FALSE, <<>>, <<>>, <<>>)
    ELSE Effect(ToolCall(req.name, TRUE, Some(out.len), None), TRUE,
                <<ToolMsg(Truncate(out.len).keep, Truncate(out.len).marker, out.len)>>,
                <<>>, <<>>)

\* one tool invocation of a round: ToolCall record, has_successful_tool,
\* messages appended to the history, sources
OllamaInvoke(req, out, k) ==
    IF req.name \notin available_tools_dict
    THEN Effect(ToolCall(req.name, FALSE, None, Some("not_found")), FALSE,
                <<>>, <<>>, <<>>)
    ELSE IF out.kind = "raise"
    THEN Effect(ToolCall(req.name, FALSE, None, Some("exception")), FALSE,
                <<>>, <<>>, <<>>)
    ELSE IF req.name = "search_documents" /\ out.kind = "docs_bad"
    THEN \* output, success and has_successful_tool are already assigned
         Effect(ToolCall(req.name, FALSE, Some(out.len), Some("exception")), TRUE,
                <<>>, <<>>, <<>>)
    ELSE Effect(ToolCall(req.name, TRUE, Some(out.len), None), TRUE,
                <<ToolMsg(Truncate(out.len).keep, Truncate(out.len).marker, out.len)>>,
                IF req.name = "search_documents" /\ out.kind = "docs"
                THEN <<Source(k)>> ELSE <<>>,
                <<>>)

\* lines 100-128: one Thinking round
OllamaThink ==
    /\ orch = "ollama" /\ pc = "loop"
    /\ iteration' = iteration + 1
    /\ \/ \* asyncio.TimeoutError: apology and break
          /\ Left >= 1
          /\ variations' = variations + 1
          /\ final_content' = TIMEOUT_APOLOGY
          /\ llmFaults' = llmFaults \cup {"timeout"}
          /\ roundLog' = LogRound(roundLog)
          /\ pc' = "finalize" /\ exitWhy' = "timeout"
          /\ UNCHANGED <<response, chat_history, pending, has_successful_tool>>
       \/ \* any other exception of the model call
          /\ Left >= 1
          /\ variations' = variations + 1
          /\ roundLog' = LogRound(roundLog)
          /\ llmFaults' = llmFaults \cup {"exception"}
          /\ pc' = "except" /\ exitWhy' = "exception"
          /\ UNCHANGED <<response, chat_history, pending, has_successful_tool,
                         final_content>>
       \/ \E r \in Response(OllamaRequest, Left) :
          /\ RespCost(r) <= Left
          /\ variations' = variations + RespCost(r)
          /\ response' = Some(r)
          /\ chat_history' = Append(chat_history, Msg("assistant", Len(r.tools)))
          /\ roundLog' = LogRequested(LogRound(roundLog), r.tools)
          /\ pending' = r.tools
          /\ has_successful_tool' = FALSE
          /\ IF r.tools = <<>>
             THEN pc' = "finalize" /\ exitWhy' = "final"
             ELSE pc' = "act" /\ exitWhy' = exitWhy
          /\ UNCHANGED <<final_content, llmFaults>>
    /\ UNCHANGED <<orch, kept, accumulated_tool_calls, messages, is_first_message, retry_count, tool_calls,
                   sources, reasoning, bound, accumulated_content,
                   content_started, chunk_count, events, outcome, title_tasks,
                   streamFailed>>

\* (variant: the next model call does not wait for the rest of the round)
OllamaAct_FanOut ==
    /\ orch = "ollama" /\ pc = "act" /\ pending # <<>>
    /\ \E out \in OutcomeChoices(Head(pending)) :
       LET req == Head(pending)
           e == OllamaInvoke(req, out, Len(tool_calls) + 1)
           flag == has_successful_tool \/ e.ok
           tcs == Append(tool_calls, e.tc)
       IN /\ variations' =
                variations + (IF req.name \in available_tools_dict
                              THEN OutcomeCost(out) ELSE 0)
          /\ tool_calls' = tcs
          /\ has_successful_tool' = flag
          /\ chat_history' = chat_history \o e.msgs
          /\ sources' = sources \o e.srcs
          /\ roundLog' = LogResult(roundLog, e)
          /\ retrievalFailed' = GatewayLog(retrievalFailed, out, Len(tool_calls) + 1)
          /\ shapeLog' = ShapeLog(shapeLog, out, Len(tool_calls) + 1)
          /\ pending' = Tail(pending)
          /\ IF Tail(pending) # <<>> /\ ~flag
             THEN pc' = "act" /\ exitWhy' = exitWhy /\ reasoning' = reasoning
             ELSE IF ~flag
             THEN pc' = "finalize" /\ exitWhy' = "no_success" /\ reasoning' = reasoning
             ELSE /\ reasoning' = Some(Count(tcs))
                  /\ IF iteration < max_iterations
                     THEN pc' = "loop" /\ exitWhy' = exitWhy
                     ELSE pc' = "finalize" /\ exitWhy' = "cap"
    /\ UNCHANGED <<orch, chat_histories, flows, chat, histories, search, received, rule_store, document_store, accumulated_tool_calls, messages, is_first_message, iteration, retry_count,
                   response, bound, final_content, accumulated_content,
                   content_started, chunk_count, events, outcome, title_tasks,
                   llmFaults, streamFailed>>

\* lines 134-199: the next invocation of the round; after the last one the
\* loop breaks when none succeeded, else goes on while iteration < max_iterations
OllamaAct ==
    /\ orch = "ollama" /\ pc = "act" /\ pending # <<>>
    /\ \E out \in OutcomeChoices(Head(pending)) :
       LET req == Head(pending)
           e == OllamaInvoke(req, out, Len(tool_calls) + 1)
           flag == has_successful_tool \/ e.ok
           tcs == Append(tool_calls, e.tc)
       IN /\ variations' =
                variations + (IF req.name \in available_tools_dict
                              THEN OutcomeCost(out) ELSE 0)
          /\ tool_calls' = tcs
          /\ has_successful_tool' = flag
          /\ chat_history' = chat_history \o e.msgs
          /\ sources' = sources \o e.srcs
          /\ roundLog' = LogResult(roundLog, e)
          /\ retrievalFailed' = GatewayLog(retrievalFailed, out, Len(tool_calls) + 1)
          /\ shapeLog' = ShapeLog(shapeLog, out, Len(tool_calls) + 1)
          /\ pending' = Tail(pending)
          /\ IF Tail(pending) # <<>>
             THEN pc' = "act" /\ exitWhy' = exitWhy /\ reasoning' = reasoning
             ELSE IF ~flag
             THEN pc' = "finalize" /\ exitWhy' = "no_success" /\ reasoning' = reasoning
             ELSE /\ reasoning' = Some(Count(tcs))
                  /\ IF iteration < max_iterations
                     THEN pc' = "loop" /\ exitWhy' = exitWhy
                     ELSE pc' = "finalize" /\ exitWhy' = "cap"
    /\ UNCHANGED <<orch, chat_histories, flows, chat, histories, search, received, rule_store, document_store, accumulated_tool_calls, messages, is_first_message, iteration, retry_count,
                   response, bound, final_content, accumulated_content,
                   content_started, chunk_count, events, outcome, title_tasks,
                   llmFaults, streamFailed>>

\* lines 217-241: the handler of the entry point, then the response
OllamaFailed ==
    /\ final_content' = ERROR_MESSAGE
    /\ reasoning' = Some(0)
    /\ messages' = Append(messages, ChatMessage("assistant", ERROR_MESSAGE, None))
    /\ outcome' = Outcome("answer", ERROR_MESSAGE, sources, tool_calls)
    /\ title_tasks' = title_tasks
    /\ pc' = "done"

\* lines 201-215 and 225-241: final content, persist, title task, response;
\* reading response before any model call returned raises UnboundLocalError
OllamaFinalize ==
    /\ orch = "ollama" /\ pc = "finalize"
    /\ IF response = None
       THEN OllamaFailed
       ELSE LET content == IF ~IsEmpty(response[1].content)
                           THEN response[1].content ELSE PLACEHOLDER
            IN /\ final_content' = content
               /\ messages' = Append(messages,
                      ChatMessage("assistant", content,
                                  Some(Metadata(sources, tool_calls, reasoning))))
               /\ title_tasks' = title_tasks + (IF is_first_message THEN 1 ELSE 0)
               /\ outcome' = Outcome("answer", content, sources, tool_calls)
               /\ reasoning' = reasoning
               /\ pc' = "done"
    /\ UNCHANGED <<orch, kept, accumulated_tool_calls, chat_history, is_first_message, iteration, retry_count,
                   response, pending, has_successful_tool, tool_calls, sources,
                   bound, accumulated_content, content_started, chunk_count,
                   events, variations, roundLog, llmFaults, streamFailed, exitWhy>>

OllamaExcept ==
    /\ orch = "ollama" /\ pc = "except"
    /\ OllamaFailed
    /\ UNCHANGED <<orch, kept, accumulated_tool_calls, chat_history, is_first_message, iteration, retry_count,
                   response, pending, has_successful_tool, tool_calls, sources,
                   bound, accumulated_content, content_started, chunk_count,
                   events, variations, roundLog, llmFaults, streamFailed, exitWhy>>

(**************** GenerateAnswerInteractor.execute_stream ******************)
\* one chunk of a model stream: content length, requested invocations (the
\* Ollama client delivers them whole), and whether the stream ends after it
OverLen == max_accumulated + 1
Chunk(R) ==
    [len : {0, ShortLen, OverLen}, tools : RequestSeqs(R, Left), last : BOOLEAN]
ChunkCost(c, seen) ==
    (IF c.len = OverLen THEN 1 ELSE 0)
    + (IF c.tools = <<>>
       THEN (IF c.len = 0 THEN 1 ELSE 0)
       ELSE SeqCost(c.tools) + (Len(c.tools) - 1)
            + (IF c.len > 0 THEN 1 ELSE 0)
            + (IF c.last THEN 0 ELSE 1)
            + (IF seen > 0 THEN 1 ELSE 0))
ChunkChoices(R) ==
    {c \in Chunk(R) : /\ ChunkCost(c, chunk_count) <= Left
                      /\ (chunk_count + 1 >= MaxChunks => c.last)}

\* mutant: the chunk is sent before content_start
ContentEvents_ChunkFirst(started, n) ==
    <<Event("content_chunk", n)>>
    \o (IF started THEN <<>> ELSE <<Event("content_start", 0)>>)

\* events of one content-bearing chunk: content_start once, then the chunk
ContentEvents(started, n) ==
    (IF started THEN <<>> ELSE <<Event("content_start", 0)>>)
    \o <<Event("content_chunk", n)>>

OllamaStreamInvoke(req, out, k) ==
    IF req.name \notin available_tools_dict
    THEN Effect(ToolCall(req.name, FALSE, None, Some("not_found")), FALSE,
                <<>>, <<>>,
                <<Event("tool_call_start", k), Event("tool_call_error", k)>>)
    ELSE IF out.kind = "raise"
    THEN Effect(ToolCall(req.name, FALSE, None, Some("exception")), FALSE,
                <<>>, <<>>,
                <<Event("tool_call_start", k), Event("tool_call_error", k)>>)
    ELSE IF req.name = "search_documents" /\ out.kind = "docs_bad"
    THEN Effect(ToolCall(req.name, FALSE, Some(out.len), Some("exception")), TRUE,
                <<>>, <<>>,
                <<Event("tool_call_start", k), Event("tool_call_success", k),
                  Event("tool_call_error", k)>>)
    ELSE Effect(ToolCall(req.name, TRUE, Some(out.len), None), TRUE,
                <<ToolMsg(Truncate(out.len).keep, Truncate(out.len).marker, out.len)>>,
                IF req.name = "search_documents" /\ out.kind = "docs"
                THEN <<Source(k)>> ELSE <<>>,
                <<Event("tool_call_start", k), Event("tool_call_success", k)>>)

\* lines 337-376: iteration and thinking events, then the stream is opened
OllamaStreamOpen ==
    /\ orch = "ollama_stream" /\ pc = "loop"
    /\ iteration' = iteration + 1
    /\ events' = events \o <<Event("iteration", iteration + 1), Event("thinking", 0)>>
    /\ accumulated_content' = 0
    /\ response' = None
    /\ content_started' = FALSE
    /\ roundLog' = LogRound(roundLog)
    /\ \/ \* asyncio.TimeoutError while opening the stream
          /\ Left >= 1
          /\ variations' = variations + 1
          /\ final_content' = STREAM_INIT_APOLOGY
          /\ llmFaults' = llmFaults \cup {"timeout"}
          /\ pc' = "finalize" /\ exitWhy' = "timeout"
          /\ UNCHANGED chunk_count
       \/ \* any other exception of the call
          /\ Left >= 1
          /\ variations' = variations + 1
          /\ llmFaults' = llmFaults \cup {"exception"}
          /\ pc' = "except" /\ exitWhy' = "exception"
          /\ UNCHANGED <<final_content, chunk_count>>
       \/ /\ chunk_count' = 0
          /\ pc' = "stream"
          /\ UNCHANGED <<variations, final_content, llmFaults, exitWhy>>
    /\ UNCHANGED <<orch, kept, accumulated_tool_calls, chat_history, messages, is_first_message, retry_count,
                   pending, has_successful_tool, tool_calls, sources, reasoning,
                   bound, outcome, title_tasks, streamFailed>>

\* lines 380-410: the stream yields a chunk, ends, or raises (swallowed)
OllamaStreamChunk ==
    /\ orch = "ollama_stream" /\ pc = "stream"
    /\ \/ \E c \in ChunkChoices(OllamaRequest) :
          /\ variations' = variations + ChunkCost(c, chunk_count)
          /\ chunk_count' = chunk_count + 1
          /\ IF chunk_count + 1 > max_chunks
             THEN /\ pc' = "decide"
                  /\ UNCHANGED <<response, content_started, accumulated_content, events>>
             ELSE /\ response' = Some([content |-> Text("model", c.len), tools |-> c.tools])
                  /\ IF c.len > 0
                     THEN /\ content_started' = TRUE
                          /\ accumulated_content' = accumulated_content + c.len
                          /\ IF accumulated_content + c.len > max_accumulated
                             THEN /\ events' = events \o
                                      (IF content_started THEN <<>>
                                       ELSE <<Event("content_start", 0)>>)
                                  /\ pc' = "decide"
                             ELSE /\ events' = events \o ContentEvents(content_started, c.len)
                                  /\ pc' = IF c.last THEN "decide" ELSE "stream"
                     ELSE /\ pc' = IF c.last THEN "decide" ELSE "stream"
                          /\ UNCHANGED <<content_started, accumulated_content, events>>
          /\ UNCHANGED streamFailed
       \/ \* the stream ends without a chunk
          /\ chunk_count = 0 /\ Left >= 1
          /\ variations' = variations + 1
          /\ pc' = "decide"
          /\ UNCHANGED <<chunk_count, response, content_started,
                         accumulated_content, events, streamFailed>>
       \/ \* the stream raises: "Continue processing with what we have"
          /\ Left >= 1
          /\ variations' = variations + 1
          /\ streamFailed' = TRUE
          /\ pc' = "decide"
          /\ UNCHANGED <<chunk_count, response, content_started,
                         accumulated_content, events>>
    /\ UNCHANGED <<orch, kept, accumulated_tool_calls, chat_history, messages, is_first_message, iteration,
                   retry_count, pending, has_successful_tool, tool_calls,
                   sources, reasoning, bound, final_content, outcome,
                   title_tasks, roundLog, llmFaults, exitWhy>>

\* lines 412-440: tool calls of the last chunk, or final content, or nothing
OllamaStreamDecide ==
    /\ orch = "ollama_stream" /\ pc = "decide"
    /\ IF response # None /\ response[1].tools # <<>>
       THEN /\ chat_history' = Append(chat_history, Msg("assistant", Len(response[1].tools)))
            /\ roundLog' = LogRequested(roundLog, response[1].tools)
            /\ pending' = response[1].tools
            /\ has_successful_tool' = FALSE
            /\ pc' = "act"
            /\ UNCHANGED <<final_content, exitWhy>>
       ELSE IF accumulated_content > 0
       THEN /\ chat_history' = Append(chat_history, Msg("assistant", 0))
            /\ final_content' = Text("model", accumulated_content)
            /\ pc' = "finalize" /\ exitWhy' = "final"
            /\ UNCHANGED <<roundLog, pending, has_successful_tool>>
       ELSE /\ final_content' = NO_ANSWER
            /\ pc' = "finalize" /\ exitWhy' = "final"
            /\ UNCHANGED <<chat_history, roundLog, pending, has_successful_tool>>
    /\ UNCHANGED <<orch, kept, accumulated_tool_calls, messages, is_first_message, iteration, retry_count,
                   response, tool_calls, sources, reasoning, bound,
                   accumulated_content, content_started, chunk_count, events,
                   outcome, title_tasks, variations, llmFaults, streamFailed>>

\* lines 441-526
OllamaStreamAct ==
    /\ orch = "ollama_stream" /\ pc = "act" /\ pending # <<>>
    /\ \E out \in OutcomeChoices(Head(pending)) :
       LET req == Head(pending)
           e == OllamaStreamInvoke(req, out, Len(tool_calls) + 1)
           flag == has_successful_tool \/ e.ok
           tcs == Append(tool_calls, e.tc)
       IN /\ variations' =
                variations + (IF req.name \in available_tools_dict
                              THEN OutcomeCost(out) ELSE 0)
          /\ tool_calls' = tcs
          /\ has_successful_tool' = flag
          /\ chat_history' = chat_history \o e.msgs
          /\ sources' = sources \o e.srcs
          /\ events' = events \o e.evs
          /\ roundLog' = LogResult(roundLog, e)
          /\ retrievalFailed' = GatewayLog(retrievalFailed, out, Len(tool_calls) + 1)
          /\ shapeLog' = ShapeLog(shapeLog, out, Len(tool_calls) + 1)
          /\ pending' = Tail(pending)
          /\ IF Tail(pending) # <<>>
             THEN pc' = "act" /\ exitWhy' = exitWhy /\ reasoning' = reasoning
             ELSE IF ~flag
             THEN pc' = "finalize" /\ exitWhy' = "no_success" /\ reasoning' = reasoning
             ELSE /\ reasoning' = Some(Count(tcs))
                  /\ IF iteration < max_iterations
                     THEN pc' = "loop" /\ exitWhy' = exitWhy
                     ELSE pc' = "finalize" /\ exitWhy' = "cap"
    /\ UNCHANGED <<orch, chat_histories, flows, chat, histories, search, received, rule_store, document_store, accumulated_tool_calls, messages, is_first_message, iteration, retry_count,
                   response, bound, final_content, accumulated_content,
                   content_started, chunk_count, outcome, title_tasks,
                   llmFaults, streamFailed>>

\* lines 528-577: final content, persist, complete event, title task
OllamaStreamFinalize ==
    /\ orch = "ollama_stream" /\ pc = "finalize"
    /\ LET content ==
             IF ~IsEmpty(final_content) THEN final_content
             ELSE IF response # None /\ ~IsEmpty(response[1].content)
             THEN response[1].content
             ELSE PLACEHOLDER
       IN /\ final_content' = content
          /\ messages' = Append(messages,
                 ChatMessage("assistant", content,
                             Some(Metadata(sources, tool_calls, reasoning))))
          /\ events' = Append(events, Event("complete", 0))
          /\ outcome' = Outcome("complete", content, sources, tool_calls)
    /\ title_tasks' = title_tasks + (IF is_first_message THEN 1 ELSE 0)
    /\ pc' = "done"
    /\ UNCHANGED <<orch, kept, accumulated_tool_calls, chat_history, is_first_message, iteration, retry_count,
                   response, pending, has_successful_tool, tool_calls, sources,
                   reasoning, bound, accumulated_content, content_started,
                   chunk_count, variations, roundLog, llmFaults, streamFailed,
                   exitWhy>>

\* lines 579-590: persist the error message, send the error event
OllamaStreamExcept ==
    /\ orch = "ollama_stream" /\ pc = "except"
    /\ final_content' = ERROR_MESSAGE
    /\ messages' = Append(messages, ChatMessage("assistant", ERROR_MESSAGE, None))
    /\ events' = Append(events, Event("error", 0))
    /\ outcome' = Outcome("error", ERROR_MESSAGE, <<>>, <<>>)
    /\ pc' = "done"
    /\ UNCHANGED <<orch, kept, accumulated_tool_calls, chat_history, is_first_message, iteration, retry_count,
                   response, pending, has_successful_tool, tool_calls, sources,
                   reasoning, bound, accumulated_content, content_started,
                   chunk_count, title_tasks, variations, roundLog, llmFaults,
                   streamFailed, exitWhy>>

(******************* OpenAIGenerateInteractor.execute **********************)
\* lines 224-263: no truncation and no source extraction here; the arguments
\* are decoded before the try block (see OpenAIAct)
OpenAIInvoke(req, out, k) ==
    IF req.name \notin available_tools_dict
    THEN Effect(ToolCall(req.name, FALSE, None, Some("not_found")), FALSE,
                <<>>, <<>>, <<>>)
    ELSE IF out.kind = "raise"
    THEN Effect(ToolCall(req.name, FALSE, None, Some("exception")), FALSE,
                <<>>, <<>>, <<>>)
    ELSE Effect(ToolCall(req.name, TRUE, Some(out.len), None), TRUE,
                <<ToolMsg(out.len, FALSE, out.len)>>, <<>>, <<>>)

\* (variant: the failures are not counted against max_retries)
Exhausted_Never(retries) == FALSE

\* lines 178, 184 (execute_stream 455, 468): retry_count >= max_retries after
\* a failed attempt
Exhausted(retries) == retries >= max_retries

\* lines 154-214: one attempt of the tool-enabled model call
OpenAICall ==
    /\ orch = "openai" /\ pc = "loop"
    /\ \/ \* asyncio.TimeoutError: retry, or re-raise after max_retries
          /\ Left >= 1
          /\ variations' = variations + 1
          /\ retry_count' = retry_count + 1
          /\ llmFaults' = llmFaults \cup {"timeout"}
          /\ IF Exhausted(retry_count + 1)
             THEN pc' = "except_timeout" /\ exitWhy' = "timeout"
             ELSE pc' = "loop" /\ exitWhy' = exitWhy
          /\ roundLog' = IF retry_count = 0 THEN LogRound(roundLog) ELSE roundLog
          /\ UNCHANGED <<response, final_content, bound, chat_history, pending>>
       \/ \* any other exception
          /\ Left >= 1
          /\ variations' = variations + 1
          /\ retry_count' = retry_count + 1
          /\ roundLog' = IF retry_count = 0 THEN LogRound(roundLog) ELSE roundLog
          /\ IF Exhausted(retry_count + 1)
             THEN pc' = "except" /\ exitWhy' = "exception"
             ELSE pc' = "loop" /\ exitWhy' = exitWhy
          /\ llmFaults' = llmFaults \cup {"exception"}
          /\ UNCHANGED <<response, final_content, bound, chat_history, pending>>
       \/ \E r \in Response(Request, Left) :
          /\ RespCost(r) <= Left
          /\ variations' = variations + RespCost(r)
          /\ response' = Some(r)
          /\ roundLog' = LogRequested(IF retry_count = 0 THEN LogRound(roundLog)
                                      ELSE roundLog, r.tools)
          /\ final_content' = r.content
          /\ bound' = TRUE
          /\ IF r.tools # <<>>
             THEN /\ chat_history' = Append(chat_history, Msg("assistant", Len(r.tools)))
                  /\ pc' = "act" /\ exitWhy' = exitWhy
             ELSE /\ chat_history' = chat_history
                  /\ pc' = "finalize" /\ exitWhy' = "final"
          /\ pending' = r.tools
          /\ UNCHANGED <<retry_count, llmFaults>>
    /\ UNCHANGED <<orch, kept, accumulated_tool_calls, messages, is_first_message,
                   iteration, has_successful_tool, tool_calls, sources,
                   reasoning, accumulated_content, content_started,
                   chunk_count, events, outcome, title_tasks, streamFailed>>

\* lines 217-263: the next invocation; json.loads of line 220 is outside the
\* try block, so undecodable arguments end the round in the outer handler
OpenAIAct ==
    /\ orch = "openai" /\ pc = "act" /\ pending # <<>>
    /\ LET req == Head(pending)
       IN IF ~Decodes(req.args)
          THEN /\ pc' = "except" /\ exitWhy' = "exception"
               /\ UNCHANGED <<variations, tool_calls, chat_history, roundLog, retrievalFailed, shapeLog, pending>>
          ELSE \E out \in OutcomeChoices(req) :
               LET e == OpenAIInvoke(req, out, Len(tool_calls) + 1)
               IN /\ variations' =
                        variations + (IF req.name \in available_tools_dict
                                      THEN OutcomeCost(out) ELSE 0)
                  /\ tool_calls' = Append(tool_calls, e.tc)
                  /\ chat_history' = chat_history \o e.msgs
                  /\ roundLog' = LogResult(roundLog, e)
                  /\ retrievalFailed' = GatewayLog(retrievalFailed, out, Len(tool_calls) + 1)
                  /\ shapeLog' = ShapeLog(shapeLog, out, Len(tool_calls) + 1)
                  /\ pending' = Tail(pending)
                  /\ pc' = IF Tail(pending) # <<>> THEN "act" ELSE "final_call"
                  /\ exitWhy' = exitWhy
    /\ UNCHANGED <<orch, chat_histories, flows, chat, histories, search, received, rule_store, document_store, accumulated_tool_calls, messages, is_first_message,
                   iteration, retry_count, response, has_successful_tool,
                   sources, reasoning, bound, final_content,
                   accumulated_content, content_started, chunk_count, events,
                   outcome, title_tasks, llmFaults, streamFailed>>

\* lines 265-276: the model call without tools after the round
OpenAIFinalCall ==
    /\ orch = "openai" /\ pc = "final_call"
    /\ \/ /\ Left >= 1
          /\ variations' = variations + 1
          /\ llmFaults' = llmFaults \cup {"timeout"}
          /\ pc' = "except_timeout" /\ exitWhy' = "timeout"
          /\ UNCHANGED final_content
       \/ /\ Left >= 1
          /\ variations' = variations + 1
          /\ llmFaults' = llmFaults \cup {"exception"}
          /\ pc' = "except" /\ exitWhy' = "exception"
          /\ UNCHANGED final_content
       \/ \E c \in {Empty, Text("model", ShortLen)} :
          /\ (IF IsEmpty(c) THEN 1 ELSE 0) <= Left
          /\ variations' = variations + (IF IsEmpty(c) THEN 1 ELSE 0)
          /\ final_content' = c
          /\ pc' = "finalize" /\ exitWhy' = "final"
          /\ UNCHANGED llmFaults
    /\ UNCHANGED <<orch, kept, accumulated_tool_calls, chat_history, messages,
                   is_first_message, iteration, retry_count, response, pending,
                   has_successful_tool, tool_calls, sources, reasoning, bound,
                   accumulated_content, content_started, chunk_count, events,
                   outcome, title_tasks, roundLog, streamFailed>>

\* lines 300-316: sources and tool_calls_list are first assigned at lines
\* 191-192; building the response before that raises UnboundLocalError
OpenAIResponse(content) ==
    IF bound
    THEN Outcome("answer", content, sources, tool_calls)
    ELSE Outcome("raised", content, <<>>, <<>>)

\* lines 278-289, 300-316
OpenAIFinalize ==
    /\ orch = "openai" /\ pc = "finalize"
    /\ chat_history' = Append(chat_history, Msg("assistant", 0))
    /\ messages' = Append(messages, ChatMessage("assistant", final_content, None))
    /\ title_tasks' = title_tasks + (IF is_first_message THEN 1 ELSE 0)
    /\ reasoning' = IF tool_calls # <<>> THEN Some(Len(tool_calls)) ELSE None
    /\ outcome' = OpenAIResponse(final_content)
    /\ pc' = "done"
    /\ UNCHANGED <<orch, kept, accumulated_tool_calls, is_first_message, iteration,
                   retry_count, response, pending, has_successful_tool,
                   tool_calls, sources, bound, final_content,
                   accumulated_content, content_started, chunk_count, events,
                   variations, roundLog, llmFaults, streamFailed, exitWhy>>

\* lines 291-294, 300-316
OpenAIExceptTimeout ==
    /\ orch = "openai" /\ pc = "except_timeout"
    /\ final_content' = TIMEOUT_APOLOGY
    /\ messages' = Append(messages, ChatMessage("assistant", TIMEOUT_APOLOGY, None))
    /\ outcome' = OpenAIResponse(TIMEOUT_APOLOGY)
    /\ pc' = "done"
    /\ UNCHANGED <<orch, kept, accumulated_tool_calls, chat_history, is_first_message,
                   iteration, retry_count, response, pending,
                   has_successful_tool, tool_calls, sources, reasoning, bound,
                   accumulated_content, content_started, chunk_count, events,
                   title_tasks, variations, roundLog, llmFaults, streamFailed,
                   exitWhy>>

\* lines 295-298, 300-316
OpenAIExcept ==
    /\ orch = "openai" /\ pc = "except"
    /\ final_content' = ERROR_MESSAGE
    /\ messages' = Append(messages, ChatMessage("assistant", ERROR_MESSAGE, None))
    /\ outcome' = OpenAIResponse(ERROR_MESSAGE)
    /\ pc' = "done"
    /\ UNCHANGED <<orch, kept, accumulated_tool_calls, chat_history, is_first_message,
                   iteration, retry_count, response, pending,
                   has_successful_tool, tool_calls, sources, reasoning, bound,
                   accumulated_content, content_started, chunk_count, events,
                   title_tasks, variations, roundLog, llmFaults, streamFailed,
                   exitWhy>>

(**************** OpenAIGenerateInteractor.execute_stream ******************)
\* a streamed tool-call fragment (delta.tool_calls[j]); "" is an absent field
Fragment(index, id, name, args) ==
    [index |-> index, id |-> id, name |-> name, args |-> args]
EmptyCall == [id |-> "", name |-> "", args |-> <<>>]

\* lines 504-512: extend the accumulator up to the fragment's index
RECURSIVE Extend(_, _)
Extend(acc, index) ==
    IF Len(acc) <= index THEN Extend(Append(acc, EmptyCall), index) ELSE acc

\* (variant: the arguments of a fragment replace what was accumulated)
AccumulateFragment_Replace(acc, f) ==
    LET ext == Extend(acc, f.index)
        tc == ext[f.index + 1]
    IN [ext EXCEPT ![f.index + 1] =
           [id |-> IF f.id # "" THEN f.id ELSE tc.id,
            name |-> IF f.name # "" THEN f.name ELSE tc.name,
            args |-> IF f.args # <<>> THEN f.args ELSE tc.args]]

\* lines 514-522: merge one fragment into the entry at its index
AccumulateFragment(acc, f) ==
    LET ext == Extend(acc, f.index)
        tc == ext[f.index + 1]
    IN [ext EXCEPT ![f.index + 1] =
           [id |-> IF f.id # "" THEN f.id ELSE tc.id,
            name |-> IF f.name # "" THEN f.name ELSE tc.name,
            args |-> tc.args \o f.args]]

RECURSIVE Accumulate(_, _)
Accumulate(acc, frags) ==
    IF frags = <<>> THEN acc
    ELSE Accumulate(AccumulateFragment(acc, Head(frags)), Tail(frags))

\* the fragments by which a chunk announces its invocations: one whole
\* fragment per invocation, indexed by position
FragmentsOf(tools) ==
    [i \in 1..Len(tools) |-> Fragment(i - 1, "call", tools[i].name, tools[i].args)]

\* lines 562-628: no truncation of the tool output
OpenAIStreamInvoke(req, out, k) ==
    IF req.name \notin available_tools_dict
    THEN Effect(ToolCall(req.name, FALSE, None, Some("not_found")), FALSE,
                <<>>, <<>>,
                <<Event("tool_call_start", k), Event("tool_call_error", k)>>)
    ELSE IF out.kind = "raise"
    THEN Effect(ToolCall(req.name, FALSE, None, Some("exception")), FALSE,
                <<>>, <<>>,
                <<Event("tool_call_start", k), Event("tool_call_error", k)>>)
    ELSE IF req.name = "search_documents" /\ out.kind = "docs_bad"
    THEN Effect(ToolCall(req.name, FALSE, Some(out.len), Some("exception")), TRUE,
                <<>>, <<>>,
                <<Event("tool_call_start", k), Event("tool_call_success", k),
                  Event("tool_call_error", k)>>)
    ELSE Effect(ToolCall(req.name, TRUE, Some(out.len), None), TRUE,
                <<ToolMsg(out.len, FALSE, out.len)>>,
                IF req.name = "search_documents" /\ out.kind = "docs"
                THEN <<Source(k)>> ELSE <<>>,
                <<Event("tool_call_start", k), Event("tool_call_success", k)>>)

\* line 648: after the loop, a finalization call is made when the cap was
\* reached with no content at hand
AfterLoop(iter, acc) ==
    IF iter >= max_iterations /\ acc = 0 THEN "bonus" ELSE "finalize"

\* lines 415-430
OpenAIStreamIter ==
    /\ orch = "openai_stream" /\ pc = "loop"
    /\ iteration' = iteration + 1
    /\ events' = events \o <<Event("iteration", iteration + 1), Event("thinking", 0)>>
    /\ retry_count' = 0
    /\ roundLog' = LogRound(roundLog)
    /\ pc' = "open"
    /\ UNCHANGED <<orch, kept, accumulated_tool_calls, chat_history, messages,
                   is_first_message, response, pending, has_successful_tool,
                   tool_calls, sources, reasoning, bound, final_content,
                   accumulated_content, content_started, chunk_count, outcome,
                   title_tasks, variations, llmFaults, streamFailed, exitWhy>>

\* lines 432-480: one attempt to open the stream; after max_retries failed
\* attempts an error event is sent and the generator returns
OpenAIStreamOpen ==
    /\ orch = "openai_stream" /\ pc = "open"
    /\ \/ \E timeout \in BOOLEAN :
          /\ Left >= 1
          /\ variations' = variations + 1
          /\ retry_count' = retry_count + 1
          /\ llmFaults' = llmFaults \cup {IF timeout THEN "timeout" ELSE "exception"}
          /\ IF Exhausted(retry_count + 1)
             THEN /\ events' = Append(events, Event("error", 0))
                  /\ outcome' = Outcome("error", ERROR_MESSAGE, <<>>, <<>>)
                  /\ pc' = "done"
                  /\ exitWhy' = IF timeout THEN "timeout" ELSE "exception"
             ELSE /\ pc' = "open"
                  /\ UNCHANGED <<events, outcome, exitWhy>>
          /\ UNCHANGED <<content_started, accumulated_tool_calls, chunk_count>>
       \/ /\ content_started' = FALSE
          /\ accumulated_tool_calls' = <<>>
          /\ chunk_count' = 0
          /\ pc' = "stream"
          /\ UNCHANGED <<variations, retry_count, llmFaults, events, outcome, exitWhy>>
    /\ UNCHANGED <<orch, kept, chat_history, messages, is_first_message, iteration,
                   response, pending, has_successful_tool, tool_calls, sources,
                   reasoning, bound, final_content, accumulated_content,
                   title_tasks, roundLog, streamFailed>>

\* mutant: the failure is swallowed and the round goes on with what it has
OpenAIStreamRaise_Swallow ==
    /\ pc' = "decide"
    /\ UNCHANGED <<events, outcome, exitWhy>>

\* lines 528-534: the stream raises while it is consumed: error event, return
OpenAIStreamRaise ==
    /\ events' = Append(events, Event("error", 0))
    /\ outcome' = Outcome("error", ERROR_MESSAGE, <<>>, <<>>)
    /\ pc' = "done" /\ exitWhy' = "stream_error"

\* lines 482-534: the stream yields a chunk (last: finish_reason is set or
\* the stream is exhausted after it), ends, or raises
OpenAIStreamChunk ==
    /\ orch = "openai_stream" /\ pc = "stream"
    /\ \/ \E c \in ChunkChoices(Request) :
          /\ variations' = variations + ChunkCost(c, chunk_count)
          /\ chunk_count' = chunk_count + 1
          /\ IF c.len > 0
             THEN /\ content_started' = TRUE
                  /\ accumulated_content' = accumulated_content + c.len
                  /\ events' = events \o ContentEvents(content_started, c.len)
             ELSE UNCHANGED <<content_started, accumulated_content, events>>
          /\ accumulated_tool_calls' =
                Accumulate(accumulated_tool_calls, FragmentsOf(c.tools))
          /\ pc' = IF c.last THEN "decide" ELSE "stream"
          /\ UNCHANGED <<streamFailed, outcome, exitWhy>>
       \/ \* the stream ends without a chunk
          /\ chunk_count = 0 /\ Left >= 1
          /\ variations' = variations + 1
          /\ pc' = "decide"
          /\ UNCHANGED <<chunk_count, content_started, accumulated_content,
                         events, accumulated_tool_calls, streamFailed, outcome,
                         exitWhy>>
       \/ /\ Left >= 1
          /\ variations' = variations + 1
          /\ streamFailed' = TRUE
          /\ OpenAIStreamRaise
          /\ UNCHANGED <<chunk_count, content_started, accumulated_content,
                         accumulated_tool_calls>>
    /\ UNCHANGED <<orch, kept, chat_history, messages, is_first_message, iteration,
                   retry_count, response, pending, has_successful_tool,
                   tool_calls, sources, reasoning, bound, final_content,
                   title_tasks, roundLog, llmFaults>>

\* lines 537-548, 635-645
OpenAIStreamDecide ==
    /\ orch = "openai_stream" /\ pc = "decide"
    /\ IF accumulated_tool_calls # <<>>
       THEN /\ chat_history' =
                  Append(chat_history, Msg("assistant", Len(accumulated_tool_calls)))
            /\ roundLog' = LogRequested(roundLog, accumulated_tool_calls)
            /\ pending' = [i \in 1..Len(accumulated_tool_calls) |->
                              [name |-> accumulated_tool_calls[i].name,
                               args |-> accumulated_tool_calls[i].args]]
            /\ has_successful_tool' = FALSE
            /\ pc' = "act"
            /\ UNCHANGED exitWhy
       ELSE /\ chat_history' =
                  IF accumulated_content > 0
                  THEN Append(chat_history, Msg("assistant", 0)) ELSE chat_history
            /\ pc' = AfterLoop(iteration, accumulated_content)
            /\ exitWhy' = "final"
            /\ UNCHANGED <<roundLog, pending, has_successful_tool>>
    /\ UNCHANGED <<orch, kept, accumulated_tool_calls, messages, is_first_message,
                   iteration, retry_count, response, tool_calls, sources,
                   reasoning, bound, final_content, accumulated_content,
                   content_started, chunk_count, events, outcome, title_tasks,
                   variations, llmFaults, streamFailed>>

\* lines 549-633: the next invocation; json.loads of line 552 is outside the
\* try block.  has_successful_tool is assigned and never read: after the
\* last invocation the loop goes on while iteration < max_iterations
OpenAIStreamAct ==
    /\ orch = "openai_stream" /\ pc = "act" /\ pending # <<>>
    /\ LET req == Head(pending)
       IN IF ~Decodes(req.args)
          THEN /\ pc' = "except" /\ exitWhy' = "exception"
               /\ UNCHANGED <<variations, tool_calls, has_successful_tool,
                              chat_history, sources, events, roundLog, retrievalFailed, shapeLog, pending,
                              accumulated_content>>
          ELSE \E out \in OutcomeChoices(req) :
               LET e == OpenAIStreamInvoke(req, out, Len(tool_calls) + 1)
               IN /\ variations' =
                        variations + (IF req.name \in available_tools_dict
                                      THEN OutcomeCost(out) ELSE 0)
                  /\ tool_calls' = Append(tool_calls, e.tc)
                  /\ has_successful_tool' = (has_successful_tool \/ e.ok)
                  /\ chat_history' = chat_history \o e.msgs
                  /\ sources' = sources \o e.srcs
                  /\ events' = events \o e.evs
                  /\ roundLog' = LogResult(roundLog, e)
                  /\ retrievalFailed' = GatewayLog(retrievalFailed, out, Len(tool_calls) + 1)
                  /\ shapeLog' = ShapeLog(shapeLog, out, Len(tool_calls) + 1)
                  /\ pending' = Tail(pending)
                  /\ IF Tail(pending) # <<>>
                     THEN /\ pc' = "act"
                          /\ UNCHANGED <<accumulated_content, exitWhy>>
                     ELSE /\ accumulated_content' = 0
                          /\ IF iteration < max_iterations
                             THEN pc' = "loop" /\ exitWhy' = exitWhy
                             ELSE pc' = AfterLoop(iteration, 0) /\ exitWhy' = "cap"
    /\ UNCHANGED <<orch, chat_histories, flows, chat, histories, search, received, rule_store, document_store, accumulated_tool_calls, messages, is_first_message,
                   iteration, retry_count, response, reasoning, bound,
                   final_content, content_started, chunk_count, outcome,
                   title_tasks, llmFaults, streamFailed>>

\* lines 648-675: the finalization call without tools
OpenAIStreamBonus ==
    /\ orch = "openai_stream" /\ pc = "bonus"
    /\ \/ \E timeout \in BOOLEAN :
          /\ Left >= 1
          /\ variations' = variations + 1
          /\ llmFaults' = llmFaults \cup {IF timeout THEN "timeout" ELSE "exception"}
          /\ pc' = "except"
          /\ UNCHANGED <<final_content, accumulated_content, chat_history>>
       \/ \E c \in {Empty, Text("model", ShortLen)} :
          /\ (IF IsEmpty(c) THEN 1 ELSE 0) <= Left
          /\ variations' = variations + (IF IsEmpty(c) THEN 1 ELSE 0)
          /\ final_content' = IF IsEmpty(c) THEN INSUFFICIENT_INFO ELSE c
          /\ accumulated_content' = final_content'.len
          /\ chat_history' = Append(chat_history, Msg("assistant", 0))
          /\ pc' = "finalize"
          /\ UNCHANGED llmFaults
    /\ UNCHANGED <<orch, kept, accumulated_tool_calls, messages, is_first_message,
                   iteration, retry_count, response, pending,
                   has_successful_tool, tool_calls, sources, reasoning, bound,
                   content_started, chunk_count, events, outcome, title_tasks,
                   roundLog, streamFailed, exitWhy>>

\* lines 677-709
OpenAIStreamFinalize ==
    /\ orch = "openai_stream" /\ pc = "finalize"
    /\ LET content ==
             IF ~IsEmpty(final_content) THEN final_content
             ELSE IF accumulated_content > 0 THEN Text("model", accumulated_content)
             ELSE PLACEHOLDER_OPENAI
           why == IF tool_calls # <<>> THEN Some(Len(tool_calls)) ELSE None
       IN /\ final_content' = content
          /\ reasoning' = why
          /\ messages' = Append(messages,
                 ChatMessage("assistant", content,
                             Some(Metadata(sources, tool_calls, why))))
          /\ events' = Append(events, Event("complete", 0))
          /\ outcome' = Outcome("complete", content, sources, tool_calls)
    /\ title_tasks' = title_tasks + (IF is_first_message THEN 1 ELSE 0)
    /\ pc' = "done"
    /\ UNCHANGED <<orch, kept, accumulated_tool_calls, chat_history, is_first_message,
                   iteration, retry_count, response, pending,
                   has_successful_tool, tool_calls, sources, bound,
                   accumulated_content, content_started, chunk_count,
                   variations, roundLog, llmFaults, streamFailed, exitWhy>>

\* lines 711-719
OpenAIStreamExcept ==
    /\ orch = "openai_stream" /\ pc = "except"
    /\ events' = Append(events, Event("error", 0))
    /\ messages' = Append(messages, ChatMessage("assistant", ERROR_MESSAGE, None))
    /\ outcome' = Outcome("error", ERROR_MESSAGE, <<>>, <<>>)
    /\ pc' = "done"
    /\ UNCHANGED <<orch, kept, accumulated_tool_calls, chat_history, is_first_message,
                   iteration, retry_count, response, pending,
                   has_successful_tool, tool_calls, sources, reasoning, bound,
                   final_content, accumulated_content, content_started,
                   chunk_count, title_tasks, variations, roundLog, llmFaults,
                   streamFailed, exitWhy>>

(************************ between the runs of a chat ***********************)
\* routers/chat.py: the next request for the chat is served by one of the
\* entry points; the list the finished run appended to is the entry of its
\* module's chat_histories
NewRun ==
    /\ pc = "done"
    /\ Left >= 1
    /\ variations' = variations + 1
    /\ orch' \in Orchestrators
    /\ chat_histories' = [chat_histories EXCEPT ![Module(orch)] = Some(chat_history)]
    /\ pc' = "init"
    /\ chat_history' = <<>>
    /\ is_first_message' = FALSE
    /\ iteration' = 0
    /\ retry_count' = 0
    /\ response' = None
    /\ pending' = <<>>
    /\ accumulated_tool_calls' = <<>>
    /\ has_successful_tool' = FALSE
    /\ tool_calls' = <<>>
    /\ sources' = <<>>
    /\ reasoning' = None
    /\ bound' = FALSE
    /\ final_content' = Empty
    /\ accumulated_content' = 0
    /\ content_started' = FALSE
    /\ chunk_count' = 0
    /\ events' = <<>>
    /\ outcome' = NoOutcome
    /\ roundLog' = <<>>
    /\ llmFaults' = {}
    /\ streamFailed' = FALSE
    /\ exitWhy' = "none"
    /\ retrievalFailed' = {}
    /\ shapeLog' = {}
    /\ UNCHANGED <<messages, title_tasks, flows, chat, histories, search, received,
                   rule_store, document_store>>

\* clear_chat_history(chat_id) of a module, called while no run is active
clear_chat_history(m) ==
    /\ pc = "init"
    /\ Left >= 1
    /\ chat_histories[m] # None
    /\ chat_histories[m] # Some(<<Msg("system", 0)>>)
    /\ variations' = variations + 1
    /\ chat_histories' = [chat_histories EXCEPT ![m] = Some(<<Msg("system", 0)>>)]
    /\ UNCHANGED <<orch, pc, chat_history, messages, is_first_message, iteration,
                   retry_count, response, pending, accumulated_tool_calls,
                   has_successful_tool, tool_calls, sources, reasoning, bound,
                   final_content, accumulated_content, content_started,
                   chunk_count, events, outcome, title_tasks, roundLog,
                   llmFaults, streamFailed, exitWhy, retrievalFailed, shapeLog, flows, chat,
                   histories, search, received, rule_store, document_store>>

Clear == \E m \in Modules : clear_chat_history(m)

Next ==
    \/ Begin
    \/ NewRun
    \/ Clear
    \/ OllamaThink
    \/ OllamaAct
    \/ OllamaFinalize
    \/ OllamaExcept
    \/ OllamaStreamOpen
    \/ OllamaStreamChunk
    \/ OllamaStreamDecide
    \/ OllamaStreamAct
    \/ OllamaStreamFinalize
    \/ OllamaStreamExcept
    \/ OpenAICall
    \/ OpenAIAct
    \/ OpenAIFinalCall
    \/ OpenAIFinalize
    \/ OpenAIExceptTimeout
    \/ OpenAIExcept
    \/ OpenAIStreamIter
    \/ OpenAIStreamOpen
    \/ OpenAIStreamChunk
    \/ OpenAIStreamDecide
    \/ OpenAIStreamAct
    \/ OpenAIStreamBonus
    \/ OpenAIStreamFinalize
    \/ OpenAIStreamExcept

Spec == Init /\ [][Next]_vars


(***************************************************************************)
(* Concurrent requests.  Each request is a task of the event loop: it runs *)
(* from one await to the next without interruption, so a step below is the *)
(* code between two awaits.  What the requests share is the Conversation   *)
(* Store and the chat_histories of their module, both keyed by chat id;    *)
(* the run state of the sections above is left alone.  Next to each        *)
(* request the model keeps what the same request, given the same model and *)
(* tool responses, does when it is served alone on a chat of its own.      *)
(***************************************************************************)
runvars == <<orch, pc, chat_history, messages, is_first_message, iteration,
             retry_count, response, pending, accumulated_tool_calls,
             has_successful_tool, tool_calls, sources, reasoning, bound,
             final_content, accumulated_content, content_started,
             chunk_count, events, outcome, title_tasks, variations, roundLog,
             llmFaults, streamFailed, exitWhy, retrievalFailed, shapeLog, chat_histories,
             search, received, rule_store, document_store>>

\* (variant: the message is put in front of the list)
add_message_Front(c, f, role) ==
    [c EXCEPT !.messages = <<[flow |-> f, role |-> role]>> \o @]

\* (variant: a chat that is not in the store is created for the message)
add_message_Create(c, f, role) ==
    [c EXCEPT !.messages = Append(@, [flow |-> f, role |-> role]),
              !.exists = TRUE]

\* ChatStorage.add_message: a synchronous append to the chat when the store
\* has it, nothing otherwise
add_message(c, f, role) ==
    IF c.exists
    THEN [c EXCEPT !.messages = Append(@, [flow |-> f, role |-> role])]
    ELSE c

\* ChatStorage.update_chat_title
update_chat_title(c, title) ==
    IF c.exists THEN [c EXCEPT !.title = title] ELSE c

\* ChatStorage.delete_chat: the chat leaves the store with its messages
Deleted == [messages |-> <<>>, title |-> 0, exists |-> FALSE]
delete_chat(c) == IF c.exists THEN Deleted ELSE c

\* (variant: one list per module, whatever the chat id)
HistoryKey_Shared(c) == 1

\* the key of a chat's entry in chat_histories and in chat_storage._chats
HistoryKey(c) == c

\* chat_histories.get(chat_id) of a module, created on first use
GetHistory(c, m) ==
    IF histories[HistoryKey(c)][m] = None THEN <<Msg("system", 0)>>
    ELSE histories[HistoryKey(c)][m][1]

\* what add_message and update_chat_title return
Returned(c) == chat[HistoryKey(c)].exists

\* (history) messages tagged with the request that appends them
Own(f, msgs) == [i \in 1..Len(msgs) |-> [flow |-> f] @@ msgs[i]]

\* the list the flow holds as chat_history: the entry of its chat in the
\* chat_histories of its module, or the list that was the entry when the flow
\* took it
FlowHistory(f) ==
    IF flows[f].stale = None
    THEN GetHistory(flows[f].cid, Module(flows[f].orch))
    ELSE flows[f].stale[1]

\* (variant: every append looks the entry up again in chat_histories)
Appended_Entry(f, msgs) ==
    [histories EXCEPT ![HistoryKey(flows[f].cid)][Module(flows[f].orch)] =
        Some(GetHistory(flows[f].cid, Module(flows[f].orch)) \o Own(f, msgs))]

\* chat_history.append: the entry of chat_histories after the flow appended
\* to the list it holds
Appended(f, msgs) ==
    IF flows[f].stale = None
    THEN [histories EXCEPT ![HistoryKey(flows[f].cid)][Module(flows[f].orch)] =
                              Some(FlowHistory(f) \o Own(f, msgs))]
    ELSE histories

\* chat_history.append to a list that is no longer the entry: the requests
\* that hold the same list see the append
Detached(fl, f, msgs) ==
    IF flows[f].stale = None THEN fl
    ELSE [g \in Flows |->
            IF g \in flows[f].with
            THEN [fl[g] EXCEPT !.stale = Some(@[1] \o Own(f, msgs))]
            ELSE fl[g]]

Stored(f, role) ==
    [chat EXCEPT ![HistoryKey(flows[f].cid)] = add_message(@, f, role)]

\* the same steps of the request served alone
AloneAppended(f, msgs) == [flows[f].alone EXCEPT !.history = @ \o Own(f, msgs)]
AloneStored(a, f, role) == [a EXCEPT !.chat = add_message(@, f, role)]

\* entry of a request for one of the chats C up to its first await: history,
\* user message
FlowBeginOn(f, C) ==
    /\ flows[f].pc = "idle"
    /\ \E o \in Orchestrators, c \in C :
          LET m == Module(o)
              h == GetHistory(c, m) \o Own(f, <<Msg("user", 0)>>)
              a == [history |-> <<Msg("system", 0)>> \o Own(f, <<Msg("user", 0)>>),
                    chat |-> add_message(NoChat, f, "user"),
                    first |-> TRUE, title |-> "none", outcome |-> "none"]
          IN /\ histories' = [histories EXCEPT ![HistoryKey(c)][m] = Some(h)]
             /\ chat' = [chat EXCEPT ![HistoryKey(c)] = add_message(@, f, "user")]
             /\ flows' = [flows EXCEPT ![f] =
                             [pc |-> "model", orch |-> o, cid |-> c,
                              first |-> (Len(h) = 2),
                              acted |-> FALSE, title |-> "none",
                              outcome |-> "none",
                              stale |-> None, with |-> {}, cut |-> 0,
                              produced |-> <<"user">>,
                              returned |-> <<Returned(c)>>, alone |-> a]]
    /\ UNCHANGED runvars

FlowBegin(f) == FlowBeginOn(f, ChatIds)

\* the awaited model call is over: a final answer (persisted, title task
\* scheduled for a first message), tool calls, or a failure handled as the
\* entry point handles it
FlowModel(f) ==
    /\ flows[f].pc = "model"
    /\ \/ /\ histories' = Appended(f, <<Msg("assistant", 0)>>)
          /\ chat' = Stored(f, "assistant")
          /\ flows' = Detached(
                [flows EXCEPT ![f].pc = "done",
                              ![f].outcome = "answer",
                              ![f].produced = Append(@, "assistant"),
                              ![f].returned = Append(@, Returned(flows[f].cid)),
                              ![f].title = IF flows[f].first THEN "scheduled"
                                           ELSE "none",
                              ![f].alone =
                                  [AloneStored(AloneAppended(f, <<Msg("assistant", 0)>>),
                                               f, "assistant")
                                   EXCEPT !.outcome = "answer",
                                          !.title = IF flows[f].alone.first
                                                    THEN "scheduled" ELSE "none"]],
                f, <<Msg("assistant", 0)>>)
       \/ /\ ~flows[f].acted
          /\ histories' = Appended(f, <<Msg("assistant", 1)>>)
          /\ flows' = Detached(
                [flows EXCEPT ![f].pc = "tool",
                              ![f].alone = AloneAppended(f, <<Msg("assistant", 1)>>)],
                f, <<Msg("assistant", 1)>>)
          /\ UNCHANGED chat
       \/ \E timeout \in BOOLEAN :
          LET o == flows[f].orch
              persists == o # "openai_stream"
              titled(first) == first /\ o = "ollama_stream" /\ timeout
              a == flows[f].alone
          IN /\ chat' = IF persists THEN Stored(f, "assistant") ELSE chat
             /\ flows' = [flows EXCEPT ![f].pc = "done",
                                       ![f].outcome = "failed",
                                       ![f].produced =
                                           IF persists THEN Append(@, "assistant") ELSE @,
                                       ![f].returned =
                                           IF persists
                                           THEN Append(@, Returned(flows[f].cid)) ELSE @,
                                       ![f].title = IF titled(flows[f].first)
                                                    THEN "scheduled" ELSE "none",
                                       ![f].alone =
                                           [(IF persists THEN AloneStored(a, f, "assistant")
                                             ELSE a)
                                            EXCEPT !.outcome = "failed",
                                                   !.title = IF titled(a.first)
                                                             THEN "scheduled" ELSE "none"]]
             /\ UNCHANGED histories
    /\ UNCHANGED runvars

\* the awaited tool invocation is over: its output enters the history when
\* it succeeded; then the model is called again
FlowTool(f) ==
    /\ flows[f].pc = "tool"
    /\ \E ok \in BOOLEAN :
          LET msgs == IF ok THEN <<ToolMsg(ShortLen, FALSE, ShortLen)>> ELSE <<>>
          IN /\ histories' = Appended(f, msgs)
             /\ flows' = Detached(
                   [flows EXCEPT ![f].pc = "model", ![f].acted = TRUE,
                                 ![f].alone = AloneAppended(f, msgs)],
                   f, msgs)
    /\ UNCHANGED <<runvars, chat>>

\* _generate_chat_title: the awaited model call is over; the title is set
\* through update_chat_title, or the exception is swallowed
TitleTask(f) ==
    /\ flows[f].title = "scheduled"
    /\ \/ /\ chat' = [chat EXCEPT ![HistoryKey(flows[f].cid)] =
                                      update_chat_title(@, f)]
          /\ flows' = [flows EXCEPT ![f].title = "done",
                                    ![f].returned = Append(@, Returned(flows[f].cid)),
                                    ![f].alone =
                                        IF @.title = "scheduled"
                                        THEN [@ EXCEPT !.title = "done", !.chat.title = f]
                                        ELSE @]
       \/ /\ flows' = [flows EXCEPT ![f].title = "failed",
                                    ![f].alone =
                                        IF @.title = "scheduled"
                                        THEN [@ EXCEPT !.title = "failed"] ELSE @]
          /\ UNCHANGED chat
    /\ UNCHANGED <<runvars, histories>>

ConcInit == Init /\ orch = "ollama"

ConcNext ==
    \/ \E f \in Flows : FlowBegin(f)
    \/ \E f \in Flows : FlowModel(f)
    \/ \E f \in Flows : FlowTool(f)
    \/ \E f \in Flows : TitleTask(f)

ConcSpec == ConcInit /\ [][ConcNext]_vars

(***************************************************************************)
(* Concurrent requests racing with POST /chat/clear-history/{chat_id}      *)
(* (clear_chat_history of a module) and DELETE /chats/{chat_id}            *)
(* (ChatStorage.delete_chat), both synchronous: one step each.             *)
(***************************************************************************)
\* the requests that took the entry of chat c in module m as chat_history
Holders(c, m) ==
    {g \in Flows : /\ flows[g].pc # "idle"
                   /\ flows[g].cid = c /\ Module(flows[g].orch) = m
                   /\ flows[g].stale = None}

\* clear_chat_history(chat_id) of a module: the entry is bound to a new list
\* that holds the system message; the requests in flight keep the old list
ClearHistory(c, m) ==
    /\ histories[HistoryKey(c)][m] # None
    /\ histories[HistoryKey(c)][m] # Some(<<Msg("system", 0)>>)
    /\ histories' = [histories EXCEPT ![HistoryKey(c)][m] = Some(<<Msg("system", 0)>>)]
    /\ flows' = [g \in Flows |->
                   IF g \in Holders(c, m)
                   THEN [flows[g] EXCEPT !.stale = histories[HistoryKey(c)][m],
                                         !.with = Holders(c, m),
                                         !.cut = Len(histories[HistoryKey(c)][m][1])]
                   ELSE flows[g]]
    /\ UNCHANGED <<runvars, chat>>

\* routers/chats.py delete_chat
DeleteChat(c) ==
    /\ chat[HistoryKey(c)].exists
    /\ chat' = [chat EXCEPT ![HistoryKey(c)] = delete_chat(@)]
    /\ UNCHANGED <<runvars, flows, histories>>

\* the chat the racing requests name
RaceChats == {1}

RaceNext ==
    \/ \E f \in Flows : FlowBeginOn(f, RaceChats)
    \/ \E f \in Flows : FlowModel(f)
    \/ \E f \in Flows : FlowTool(f)
    \/ \E f \in Flows : TitleTask(f)
    \/ \E c \in RaceChats, m \in Modules : ClearHistory(c, m)
    \/ \E c \in RaceChats : DeleteChat(c)

RaceSpec == ConcInit /\ [][RaceNext]_vars

(***************************************************************************)
(* Hybrid Retrieval & Ranking Engine: SearchDocumentsInteractor.execute    *)
(* behind GET /documents/search, and the search_documents tool.  A score   *)
(* is kept in ten-thousandths and a similarity in thousandths, the query   *)
(* is the list query.split() gives, and a chunk content is its length and  *)
(* the places where words occur in it, in the case they are written in.    *)
(***************************************************************************)
max_length == 300
preview_lead == 50
high_similarity == 800
similarity_threshold == 7000
tool_similarity_threshold == 8000

Word(id, up, len) == [id |-> id, up |-> up, len |-> len]
\* str.lower()
lower(w) == [w EXCEPT !.up = FALSE]

\* the content of the chunks of the collection, by document id and chunk index
DocumentIds == {1, 2}
ChunkIndices == {2, 3, 7}
Occ(w, pos) == [w |-> w, pos |-> pos]
Content(len, occ) == [len |-> len, occ |-> occ]
Corpus(d, i) ==
    CASE d = 1 /\ i = 2 -> Content(400, {})
      [] d = 1 /\ i = 3 -> Content(10, {Occ(Word(1, TRUE, 4), 0)})
      [] d = 1 /\ i = 7 -> Content(1000, {Occ(Word(1, FALSE, 4), 20),
                                          Occ(Word(2, FALSE, 4), 380),
                                          Occ(Word(1, FALSE, 4), 600)})
      [] d = 2 /\ i = 2 -> Content(400, {Occ(Word(2, FALSE, 4), 380)})
      [] d = 2 /\ i = 3 -> Content(301, {})
      [] OTHER          -> Content(300, {Occ(Word(1, FALSE, 4), 100),
                                         Occ(Word(2, TRUE, 4), 200)})

\* the queries: one word, another word, two words one of them in capitals,
\* a short word and a word, a short word only, eleven words
Queries ==
    { <<Word(1, FALSE, 4)>>,
      <<Word(2, FALSE, 4)>>,
      <<Word(1, TRUE, 4), Word(2, FALSE, 4)>>,
      <<Word(12, FALSE, 2), Word(1, FALSE, 4)>>,
      <<Word(12, FALSE, 2)>>,
      [i \in 1..11 |-> Word(i, FALSE, 4)] }

\* the scores the gateway may give, and the hits it may return for a limit
\* and a score threshold: distinct points, in any order
Scores == {7200, 7500, 8004, 8100}
Hit(d, i, score) == [document_id |-> d, chunk_index |-> i, score |-> score]
Hits(threshold) ==
    {Hit(d, i, sc) : d \in DocumentIds, i \in ChunkIndices,
                     sc \in {x \in Scores : x >= threshold}}
HitLists(limit, threshold) ==
    {hs \in UNION {[1..n -> Hits(threshold)] : n \in 0..limit} :
        \A i, j \in 1..Len(hs) :
           (i # j) => <<hs[i].document_id, hs[i].chunk_index>>
                      # <<hs[j].document_id, hs[j].chunk_index>>}

\* round(score, 3)
Round3(score) == (score + 5) \div 10

SetMin(S) == CHOOSE x \in S : \A y \in S : x <= y
SetMax(S) == CHOOSE x \in S : \A y \in S : x >= y

\* list.sort(key=..., reverse=...) / sorted(...) over items that carry their
\* key as k: stable, also with reverse=True
Precedes(a, b, reverse) == IF reverse THEN a.k > b.k ELSE a.k < b.k
RECURSIVE InsertKeyed(_, _, _)
InsertKeyed(x, s, reverse) ==
    IF s = <<>> THEN <<x>>
    ELSE IF Precedes(x, s[Len(s)], reverse)
         THEN Append(InsertKeyed(x, SubSeq(s, 1, Len(s) - 1), reverse), s[Len(s)])
         ELSE Append(s, x)
RECURSIVE SortKeyed(_, _)
SortKeyed(s, reverse) ==
    IF s = <<>> THEN <<>>
    ELSE InsertKeyed(s[Len(s)], SortKeyed(SubSeq(s, 1, Len(s) - 1), reverse), reverse)
Keyed(s, Key(_)) == [i \in 1..Len(s) |-> [k |-> Key(s[i]), v |-> s[i]]]
Values(ks) == [i \in 1..Len(ks) |-> ks[i].v]

\* [word.lower().strip() for word in query.split() if len(word.strip()) > 2]
QueryWords(query) ==
    LET long == SelectSeq(query, LAMBDA w : w.len > 2)
    IN [i \in 1..Len(long) |-> lower(long[i])]

\* chunk_content.lower().find(word): the first place, or -1
Find(content, word) ==
    LET at == {o.pos : o \in {x \in content.occ : lower(x.w) = word}}
    IN IF at = {} THEN -1 ELSE SetMin(at)
\* word in chunk_lower
Contains(content, word) == Find(content, word) # -1

\* sum(1 for word in query_words if word in chunk_lower)
WordMatches(content, query_words) ==
    Cardinality({i \in 1..Len(query_words) : Contains(content, query_words[i])})

\* a preview: the slice [start, end) of the chunk and the "..." put around it
Preview(start, end, prefix, suffix) ==
    [start |-> start, end |-> end, prefix |-> prefix, suffix |-> suffix]

\* (variant: the window is taken around the word)
create_smart_preview_Centered(chunk_content, query) ==
    IF chunk_content.len <= max_length
    THEN Preview(0, chunk_content.len, FALSE, FALSE)
    ELSE LET query_words == QueryWords(query)
             word_positions == {Find(chunk_content, query_words[i]) :
                                   i \in 1..Len(query_words)} \ {-1}
         IN IF word_positions # {}
            THEN LET lead == SetMin(word_positions) - (max_length \div 2)
                     start_pos == IF lead > 0 THEN lead ELSE 0
                     end_pos == IF start_pos + max_length < chunk_content.len
                                THEN start_pos + max_length ELSE chunk_content.len
                 IN Preview(start_pos, end_pos, start_pos > 0,
                            end_pos < chunk_content.len)
            ELSE Preview(0, max_length, FALSE, TRUE)

\* SearchDocumentsInteractor._create_smart_preview
create_smart_preview(chunk_content, query) ==
    IF chunk_content.len <= max_length
    THEN Preview(0, chunk_content.len, FALSE, FALSE)
    ELSE LET query_words == QueryWords(query)
             word_positions == {Find(chunk_content, query_words[i]) :
                                   i \in 1..Len(query_words)} \ {-1}
         IN IF word_positions # {}
            THEN LET lead == SetMin(word_positions) - preview_lead
                     start_pos == IF lead > 0 THEN lead ELSE 0
                     end_pos == IF start_pos + max_length < chunk_content.len
                                THEN start_pos + max_length ELSE chunk_content.len
                 IN Preview(start_pos, end_pos, start_pos > 0,
                            end_pos < chunk_content.len)
            ELSE Preview(0, max_length, FALSE, TRUE)

\* execute, the loop over search_results: one match per hit whose document
\* the documents repository returned
Match(hit, query) ==
    LET chunk_content == Corpus(hit.document_id, hit.chunk_index)
    IN [document_id |-> hit.document_id,
        chunk |-> create_smart_preview(chunk_content, query),
        full_chunk |-> chunk_content,
        similarity |-> Round3(hit.score),
        chunk_index |-> hit.chunk_index,
        chunk_length |-> chunk_content.len,
        text_matches |-> WordMatches(chunk_content, QueryWords(query)),
        text_relevance_score |-> None]
Matches(hits, known, query) ==
    LET found == SelectSeq(hits, LAMBDA h : h.document_id \in known)
    IN [i \in 1..Len(found) |-> Match(found[i], query)]

\* the sort key (text_relevance_score, similarity) as one integer: the score
\* times 10 n for a query of n words, which is 10 m for m matched words and n
\* for the 0.1 of the exception, then the similarity
RelevanceKey(x) ==
    LET r == x.text_relevance_score[1]
    IN (IF r.exception THEN r.of ELSE 10 * r.matched) * 10000 + x.similarity
Relevance(matched, of, exception) ==
    [matched |-> matched, of |-> of, exception |-> exception]

\* (variant: the exception takes every chunk without a query word)
Retained_All(match, query_words) == TRUE

\* _filter_by_text_relevance, the test of one match
Retained(match, query_words) ==
    \/ \E i \in 1..Len(query_words) : Contains(match.full_chunk, query_words[i])
    \/ match.similarity > high_similarity

\* _filter_by_text_relevance, the score of a retained match
Scored(match, query_words) ==
    [match EXCEPT !.text_relevance_score =
        IF \E i \in 1..Len(query_words) : Contains(match.full_chunk, query_words[i])
        THEN Some(Relevance(WordMatches(match.full_chunk, query_words),
                            Len(query_words), FALSE))
        ELSE Some(Relevance(1, Len(query_words), TRUE))]

\* SearchDocumentsInteractor._filter_by_text_relevance
filter_by_text_relevance(matches, query) ==
    IF query = <<>> \/ matches = <<>> THEN matches
    ELSE LET query_words == QueryWords(query)
         IN IF query_words = <<>> THEN matches
            ELSE LET kept_matches == SelectSeq(matches,
                                               LAMBDA x : Retained(x, query_words))
                     filtered_matches == [i \in 1..Len(kept_matches) |->
                                             Scored(kept_matches[i], query_words)]
                 IN Values(SortKeyed(Keyed(filtered_matches, RelevanceKey), TRUE))

\* the keys of a dict filled while walking a list: first-seen order
RECURSIVE FirstSeen(_)
FirstSeen(ms) ==
    IF ms = <<>> THEN <<>>
    ELSE LET before == FirstSeen(SubSeq(ms, 1, Len(ms) - 1))
             d == ms[Len(ms)].document_id
         IN IF \E i \in 1..Len(before) : before[i] = d THEN before
            ELSE Append(before, d)

\* (variant: a group keeps only the last match of its document)
GroupOf_Last(ms, d) ==
    LET all == SelectSeq(ms, LAMBDA x : x.document_id = d)
    IN <<all[Len(all)]>>

\* documents_groups[doc_id]: the matches of a document, in list order
GroupOf(ms, d) == SelectSeq(ms, LAMBDA x : x.document_id = d)

RECURSIVE Flatten(_)
Flatten(groups) ==
    IF groups = <<>> THEN <<>> ELSE Head(groups) \o Flatten(Tail(groups))

\* (variant: the chunks of a document stay in relevance order)
ByChunkIndex_Unsorted(group) == group

\* documents_groups[doc_id].sort(key=lambda x: x["chunk_index"])
ByChunkIndex(group) ==
    Values(SortKeyed(Keyed(group, LAMBDA x : x.chunk_index), FALSE))

MaxSimilarity(group) == SetMax({group[i].similarity : i \in 1..Len(group)})

\* _sort_results_optimally from the grouping on: the groups, each in
\* chunk-index order, in the order of their documents
DocumentGroups(filtered_matches) ==
    LET ids == FirstSeen(filtered_matches)
        groups == [i \in 1..Len(ids) |-> ByChunkIndex(GroupOf(filtered_matches, ids[i]))]
    IN Values(SortKeyed(Keyed(groups, MaxSimilarity), TRUE))

\* SearchDocumentsInteractor._sort_results_optimally
sort_results_optimally(matches, query) ==
    IF matches = <<>> THEN matches
    ELSE Flatten(DocumentGroups(filter_by_text_relevance(matches, query)))

\* routers/documents.py search_documents: the chunks grouped by document
RankedDocument(group) ==
    [document_id |-> group[1].document_id,
     max_similarity |-> MaxSimilarity(group),
     chunks_count |-> Len(group),
     best_chunks |-> [i \in 1..Len(group) |->
                         [content |-> group[i].full_chunk,
                          preview |-> group[i].chunk,
                          similarity |-> group[i].similarity,
                          chunk_index |-> group[i].chunk_index]]]
RankedDocuments(chunks_results) ==
    LET ids == FirstSeen(chunks_results)
        documents_map == [i \in 1..Len(ids) |->
                             RankedDocument(GroupOf(chunks_results, ids[i]))]
    IN Values(SortKeyed(Keyed(documents_map, LAMBDA x : x.max_similarity), TRUE))

\* utils/tools/documents.py search_documents: documents_scores, then results,
\* then the text for the model: per document the lines of its chunks, each
\* "Chunk i (score: s): content"
ScoredChunk(hit) ==
    [content |-> Corpus(hit.document_id, hit.chunk_index), score |-> hit.score,
     chunk_index |-> hit.chunk_index, document_id |-> hit.document_id]
ChunkLine(i, chunk) ==
    <<[kind |-> "label", n |-> i, score |-> Round3(chunk.score)],
      [kind |-> "content", chunk_index |-> chunk.chunk_index],
      [kind |-> "newline"]>>
ToolDocument(chunks) ==
    LET sorted == Values(SortKeyed(Keyed(chunks, LAMBDA x : x.score), TRUE))
    IN [id |-> chunks[1].document_id,
        relevance_score |-> Round3(SetMax({0} \cup {chunks[i].score : i \in 1..Len(chunks)})),
        chunks |-> [i \in 1..Len(sorted) |-> ChunkLine(i, sorted[i])],
        total_chunks |-> Len(sorted)]
\* documents_scores: per document of the hits, in first-seen order, its chunks
documents_scores(search_results) ==
    LET scored == [i \in 1..Len(search_results) |-> ScoredChunk(search_results[i])]
        ids == FirstSeen(scored)
    IN [i \in 1..Len(ids) |-> GroupOf(scored, ids[i])]
ToolDocuments(search_results, known) ==
    LET found == SelectSeq(documents_scores(search_results),
                           LAMBDA g : g[1].document_id \in known)
        results == [i \in 1..Len(found) |-> ToolDocument(found[i])]
    IN Values(SortKeyed(Keyed(results, LAMBDA x : x.relevance_score), TRUE))
ToolText(kind, documents) == [kind |-> kind, documents |-> documents]

\* the documents the documents repository still has
Known == {DocumentIds, {1}}

engine_unchanged == <<orch, pc, chat_history, messages, is_first_message, iteration,
                      retry_count, response, pending, accumulated_tool_calls,
                      has_successful_tool, tool_calls, sources, reasoning, bound,
                      final_content, accumulated_content, content_started,
                      chunk_count, events, outcome, title_tasks, variations,
                      roundLog, llmFaults, streamFailed, exitWhy, retrievalFailed, shapeLog,
                      chat_histories, flows, chat, histories, received,
                      rule_store, document_store>>

\* the limit handed to search_similar
GatewayLimit(limit) == limit

\* a search is requested, through the route or by the model through the tool;
\* the query is embedded and the gateway is called
SearchRequest ==
    /\ search.pc = "idle"
    /\ \E via \in {"api", "tool"}, query \in Queries, limit \in 1..MaxHits :
          search' = [search EXCEPT !.pc = "gateway", !.via = via, !.query = query,
                                   !.limit = limit,
                                   !.requested = GatewayLimit(limit)]
    /\ UNCHANGED engine_unchanged

\* GET /documents/search: the gateway has answered; execute builds the
\* matches and sorts them, the route groups them by document
SearchReturn ==
    /\ search.pc = "gateway"
    /\ search.via = "api"
    /\ \E hits \in HitLists(search.requested, similarity_threshold), known \in Known :
          LET chunks_results ==
                  sort_results_optimally(Matches(hits, known, search.query),
                                         search.query)
          IN search' = [search EXCEPT !.pc = "done", !.hits = hits, !.known = known,
                                      !.chunks = chunks_results,
                                      !.result = RankedDocuments(chunks_results)]
    /\ UNCHANGED engine_unchanged

\* the search_documents tool: the gateway has answered; the text for the model
ToolReturn ==
    /\ search.pc = "gateway"
    /\ search.via = "tool"
    /\ \E hits \in HitLists(search.requested, tool_similarity_threshold),
          known \in Known :
          search' = [search EXCEPT !.pc = "done", !.hits = hits, !.known = known,
                                   !.text = IF hits = <<>> THEN ToolText("none", <<>>)
                                            ELSE ToolText("found",
                                                          ToolDocuments(hits, known))]
    /\ UNCHANGED engine_unchanged

\* the gateway raises: execute lets it through, the tool answers with the
\* error as its text
GatewayRaises ==
    /\ search.pc = "gateway"
    /\ search' = IF search.via = "api" THEN [search EXCEPT !.pc = "failed"]
                 ELSE [search EXCEPT !.pc = "done", !.text = ToolText("error", <<>>)]
    /\ UNCHANGED engine_unchanged

SearchInit == Init /\ orch = "ollama"

SearchNext ==
    \/ SearchRequest
    \/ SearchReturn
    \/ ToolReturn
    \/ GatewayRaises

SearchSpec == SearchInit /\ [][SearchNext]_vars

(***************************************************************************)
(* The accumulator of OpenAIGenerateInteractor.execute_stream taken alone: *)
(* the stream delivers chunks whose tool-call fragments carry any index,   *)
(* id, name and piece of the arguments, in any order.                      *)
(***************************************************************************)
MaxFragments == 3

\* tc_chunk.index, tc_chunk.id, tc_chunk.function.name and
\* tc_chunk.function.arguments of a fragment; "" and <<>> are what the
\* code's truth tests take as absent
FragmentIndices == {0, 2}
FragmentIds == {"", "call_a", "call_b"}
FragmentNames == {"", "search_documents", "search_rules"}
FragmentArguments == {<<>>, <<"{">>, <<"}">>}
Fragments ==
    {Fragment(i, id, name, args) :
        i \in FragmentIndices, id \in FragmentIds,
        name \in FragmentNames, args \in FragmentArguments}

stream_unchanged == <<orch, pc, chat_history, messages, is_first_message, iteration,
                      retry_count, response, pending,
                      has_successful_tool, tool_calls, sources, reasoning, bound,
                      final_content, accumulated_content, content_started,
                      chunk_count, events, outcome, title_tasks, variations,
                      roundLog, llmFaults, streamFailed, exitWhy, retrievalFailed,
                      shapeLog, chat_histories, flows, chat, histories, search,
                      rule_store, document_store>>

\* lines 482-522: the stream yields a chunk that carries a tool-call fragment
StreamFragment ==
    /\ Len(received) < MaxFragments
    /\ \E f \in Fragments :
          /\ accumulated_tool_calls' = Accumulate(accumulated_tool_calls, <<f>>)
          /\ received' = Append(received, f)
    /\ UNCHANGED stream_unchanged

StreamInit == Init /\ orch = "openai_stream"

StreamNext == StreamFragment

StreamSpec == StreamInit /\ [][StreamNext]_vars

(***************************************************************************)
(* Properties                                                              *)
(***************************************************************************)
Done == pc = "done"
Rounds == Len(roundLog)
Normal == outcome.kind \in {"answer", "complete"} /\ outcome.content # ERROR_MESSAGE
LastMessage == messages[Len(messages)]
Types(evs) == {evs[i].type : i \in 1..Len(evs)}
ToolMessages == {i \in 1..Len(chat_history) : chat_history[i].role = "tool"}

\* C1: a round whose response requested tool calls of which none succeeded
\* (not one tool even returned) is never followed by a further Thinking round
C1_NoRoundAfterAllFailed ==
    \A i \in 1..(Rounds - 1) : roundLog[i].n > 0 => roundLog[i].ret > 0

\* C2: when every response of the model requested tool calls, at least one
\* call of every round succeeded and no model call failed, the run (Ollama,
\* Ollama streaming, OpenAI streaming) made exactly max_iterations rounds,
\* ended normally and returned a non-empty content
C2_IterationCap ==
    ( /\ Done
      /\ orch # "openai"
      /\ llmFaults = {}
      /\ ~streamFailed
      /\ \A i \in 1..Rounds : roundLog[i].n > 0 /\ roundLog[i].ok > 0 )
    => /\ Rounds = max_iterations
       /\ Normal
       /\ ~IsEmpty(outcome.content)

\* C3: a run makes at most max_iterations Thinking rounds, and a run that left
\* the loop at the cap ends with content, not in the error path
C3_CapYieldsContent ==
    /\ Rounds <= max_iterations
    /\ (Done /\ exitWhy = "cap") => Normal

\* the event grammar as an automaton over the events sent so far
EventStep(st, e) ==
    LET iterOk == e.type = "iteration" /\ e.n = st.iter + 1
        open == [ph |-> "tstart", k |-> e.n, iter |-> st.iter]
        to(ph) == [ph |-> ph, k |-> st.k, iter |-> st.iter]
        afterThinking ==
            IF iterOk THEN [ph |-> "iter", k |-> st.k, iter |-> e.n]
            ELSE IF e.type = "tool_call_start" /\ e.n > st.k THEN open
            ELSE IF e.type \in {"complete", "error"} THEN to("end")
            ELSE to("bad")
    IN CASE st.ph = "none" ->
              IF e.type = "start" THEN to("started") ELSE to("bad")
         [] st.ph = "started" ->
              IF iterOk THEN [ph |-> "iter", k |-> st.k, iter |-> e.n] ELSE to("bad")
         [] st.ph = "iter" ->
              IF e.type = "thinking" THEN to("think") ELSE to("bad")
         [] st.ph = "think" ->
              IF e.type = "content_start" THEN to("cs") ELSE afterThinking
         [] st.ph \in {"cs", "cc"} ->
              IF e.type = "content_chunk" THEN to("cc") ELSE afterThinking
         [] st.ph = "tstart" ->
              IF e.type = "tool_call_success" /\ e.n = st.k THEN to("tsucc")
              ELSE IF e.type = "tool_call_error" /\ e.n = st.k THEN to("tdone")
              ELSE to("bad")
         [] st.ph = "tsucc" ->
              IF e.type = "tool_call_error" /\ e.n = st.k THEN to("tdone")
              ELSE afterThinking
         [] st.ph = "tdone" -> afterThinking
         [] OTHER -> to("bad")

RECURSIVE EventRun(_, _)
EventRun(st, evs) ==
    IF evs = <<>> THEN st ELSE EventRun(EventStep(st, Head(evs)), Tail(evs))

Phase == EventRun([ph |-> "none", k |-> 0, iter |-> 0], events).ph

\* C4: the events of a streaming run follow start, then iterations of
\* (iteration, thinking, at most one content_start before the content_chunk
\* events, then tool_call_start / success / error with every outcome after
\* the start of its invocation), then exactly one terminal event, with
\* nothing after it
C4_EventOrdering ==
    orch \in Streaming =>
        /\ Phase # "bad"
        /\ (pc \notin {"init", "done"}) => Phase \notin {"none", "end"}
        /\ Done => Phase = "end"

C4_Witness ==
    /\ Done
    /\ orch \in Streaming
    /\ {"content_start", "content_chunk", "tool_call_success", "tool_call_error",
        "complete"} \subseteq Types(events)
    /\ iteration >= 2

C6_FailedState ==
    /\ outcome.kind # "raised"
    /\ (Done /\ exitWhy \in {"exception", "stream_error"}) =>
          /\ outcome.kind \in {"answer", "error"}
          /\ outcome.content = ERROR_MESSAGE
          /\ LastMessage.role = "assistant"
          /\ LastMessage.content = ERROR_MESSAGE

\* C7: after a model call of the Ollama non-streaming run timed out, the run
\* returns the timeout apology and has persisted it as the assistant message
C7_TimeoutFallback ==
    (Done /\ orch = "ollama" /\ "timeout" \in llmFaults) =>
        /\ outcome.kind = "answer"
        /\ outcome.content = TIMEOUT_APOLOGY
        /\ LastMessage.role = "assistant"
        /\ LastMessage.content = TIMEOUT_APOLOGY

C9_TruncationMarker ==
    orch # "openai" =>
        \A i \in ToolMessages :
            chat_history[i].raw > max_tool_response_length =>
                /\ chat_history[i].keep = max_tool_response_length
                /\ chat_history[i].marker
                /\ CarriedLen(chat_history[i]) =
                      max_tool_response_length + TruncationMarkerLen

\* C10: once the accumulated content of a streaming run exceeds
\* max_accumulated characters, no step sends a content_chunk event
C10_CharacterCap ==
    [][(orch \in Streaming /\ accumulated_content > max_accumulated) =>
          \A i \in (Len(events) + 1)..Len(events') :
              events'[i].type # "content_chunk"]_vars

\* the text of the model response of the round that ended an Ollama run:
\* the content of the response, in a streaming run the content of its chunks
ModelText ==
    IF orch = "ollama" THEN response[1].content
    ELSE Text("model", accumulated_content)

\* C11: when every invocation requested in round 1 names an unknown tool, the
\* Ollama run (streaming or not) stops after that round, ends normally,
\* returns the text of that response (the placeholder when it is empty) and
\* one ToolCall record per requested invocation, each with success = false
C11_AllToolsFailedResult ==
    ( /\ Done
      /\ orch \in {"ollama", "ollama_stream"}
      /\ Rounds >= 1
      /\ roundLog[1].n > 0
      /\ roundLog[1].unk = roundLog[1].n )
    => /\ Rounds = 1
       /\ Normal
       /\ outcome.content = (IF IsEmpty(ModelText) THEN PLACEHOLDER ELSE ModelText)
       /\ Len(outcome.tool_calls) = roundLog[1].n
       /\ \A i \in 1..Len(outcome.tool_calls) : ~outcome.tool_calls[i].success

\* invocations the model requested in the rounds of the run so far
RECURSIVE RequestedIn(_)
RequestedIn(log) ==
    IF log = <<>> THEN 0 ELSE Head(log).n + RequestedIn(Tail(log))

\* C12: a failure while one invocation is processed is recorded on its
\* ToolCall with an error, and every invocation requested in the run has its
\* record when the run ends: none is skipped because a sibling failed
C12_ToolFailureIsolation ==
    /\ \A i \in 1..Len(tool_calls) :
           ~tool_calls[i].success => tool_calls[i].error # None
    /\ Done => Len(tool_calls) = RequestedIn(roundLog)

\* the ToolCall records of the run that name no registered tool
UnknownRecords ==
    {i \in 1..Len(tool_calls) : tool_calls[i].name \notin available_tools_dict}

RECURSIVE UnknownIn(_)
UnknownIn(log) ==
    IF log = <<>> THEN 0 ELSE Head(log).unk + UnknownIn(Tail(log))

\* C13: a ToolCall record that names no registered tool has success =
\* false, an error and no output (no tool ran); in the Ollama orchestrators
\* every requested invocation with such a name has its record, and a round
\* in which another invocation succeeded below the iteration cap is followed
\* by a further Thinking round
C13_ToolResolutionFailure ==
    /\ \A i \in UnknownRecords :
           /\ ~tool_calls[i].success
           /\ tool_calls[i].error # None
           /\ tool_calls[i].output = None
    /\ (Done /\ Module(orch) = "generate") =>
          /\ Cardinality(UnknownRecords) = UnknownIn(roundLog)
          /\ \A i \in 1..Rounds :
                 ( /\ roundLog[i].unk > 0
                   /\ roundLog[i].ok > 0
                   /\ i < max_iterations ) => Rounds > i

C13_Witness ==
    /\ Done /\ orch = "ollama"
    /\ Rounds >= 2
    /\ roundLog[1].unk > 0 /\ roundLog[1].ok > 0
    /\ UnknownRecords # {}

\* C14: an invocation of search_documents or search_rules during which the
\* embedding or the vector-search gateway failed is recorded as a failed
\* tool call: success = false with an error
C14_RetrievalFailureRecorded ==
    \A i \in retrievalFailed :
        i <= Len(tool_calls) =>
            ~tool_calls[i].success /\ tool_calls[i].error # None

\* the roles of the messages of the chat in the Conversation Store alternate
\* user, assistant
Alternates(msgs) ==
    \A i \in 1..Len(msgs) :
        msgs[i].role = (IF i % 2 = 1 THEN "user" ELSE "assistant")

\* C15: between the runs of a chat the message list of the Conversation
\* Store alternates user, assistant and ends with an assistant message: every
\* run that persisted its user message persisted one assistant message
C15_StoreCoherence ==
    /\ Alternates(messages)
    /\ pc \in {"init", "done"} => Len(messages) % 2 = 0

\* ChatMessage.metadata, with metadata = None read as nothing to carry
MetadataOf(msg) ==
    IF msg.metadata = None THEN Metadata(<<>>, <<>>, None) ELSE msg.metadata[1]

\* C16: a run that ended normally has persisted, after its user message,
\* exactly one assistant message whose content is the returned content and
\* whose metadata carries the returned sources and tool calls and the
\* reasoning summary
C16_CompletedState ==
    (Done /\ Normal /\ exitWhy \in {"final", "cap", "no_success"}) =>
        /\ Len(messages) >= 2
        /\ messages[Len(messages) - 1].role = "user"
        /\ LastMessage.role = "assistant"
        /\ LastMessage.content = outcome.content
        /\ MetadataOf(LastMessage) =
              Metadata(outcome.sources, outcome.tool_calls, reasoning)

\* chat_histories.get(chat_id) of a module: the list a run of the module
\* holds as chat_history is the entry itself
History(m) ==
    IF pc # "init" /\ Module(orch) = m THEN Some(chat_history) ELSE chat_histories[m]

IsPrefix(a, b) == Len(a) <= Len(b) /\ \A i \in 1..Len(a) : a[i] = b[i]

\* system first, then a user message, before any assistant message
Shape(h) ==
    /\ h[1].role = "system"
    /\ Len(h) >= 2 => h[2].role = "user"
    /\ \A i \in 1..Len(h) : h[i].role = "assistant" => i > 2

Grows(m) ==
    History(m) # None =>
        History(m)' # None /\ IsPrefix(History(m)[1], History(m)'[1])

\* C17 as stated: no operation removes, replaces or reorders a message of a
\* model-facing history
C17_AppendOnly == [][\A m \in Modules : Grows(m)]_vars

\* C17 amended: every operation but clear_chat_history only appends to the
\* model-facing histories (clear_chat_history resets one to the system
\* message), and each history starts with the system message, followed by a
\* user message that precedes every assistant message
C17_HistoryShape ==
    [][ /\ \A m \in Modules :
             /\ clear_chat_history(m) \/ Grows(m)
             /\ History(m)' # None => Shape(History(m)'[1])
      ]_vars

C17_Witness ==
    /\ Done
    /\ Cardinality({i \in 1..Len(chat_history) : chat_history[i].role = "user"}) >= 2
    /\ \E i \in 1..Len(chat_history) : chat_history[i].role = "assistant"

\* C20: over the runs of one chat the title-generation task is scheduled at
\* most once
C20_TitleScheduledOnce == title_tasks <= 1

\* the tool messages the current run appended to its history
LastUser ==
    CHOOSE i \in 0..Len(chat_history) :
        /\ i > 0 => chat_history[i].role = "user"
        /\ \A j \in (i + 1)..Len(chat_history) : chat_history[j].role # "user"
RunToolMessages == {i \in ToolMessages : i > LastUser}

\* a step that awaits the model: a new Thinking round, or the model call
\* without tools that follows the rounds
ModelCallStarts ==
    \/ Len(roundLog') > Len(roundLog)
    \/ pc \in {"final_call", "bonus"} /\ pc' # pc

\* C19: a step processes at most one tool invocation, the one requested
\* first among those not yet processed, and never while the model is being
\* awaited; the model is called again only when every invocation of the
\* round has been processed and the output of each successful one stands in
\* the history
C19_SequentialExecution ==
    [][ /\ Len(tool_calls') > Len(tool_calls) =>
              /\ Len(tool_calls') = Len(tool_calls) + 1
              /\ pc = "act"
              /\ pending # <<>>
              /\ pending' = Tail(pending)
              /\ tool_calls'[Len(tool_calls')].name = Head(pending).name
              /\ ~ModelCallStarts
        /\ ModelCallStarts =>
              /\ pending = <<>>
              /\ Cardinality(RunToolMessages) = Count(tool_calls)
      ]_vars

C19_Witness ==
    /\ Rounds >= 2
    /\ roundLog[1].n >= 2
    /\ Count(tool_calls) >= 2
    /\ orch \in {"ollama", "openai_stream"}

\* the roles of the messages a flow added to the chat, in list order
RECURSIVE RolesOf(_, _)
RolesOf(msgs, f) ==
    IF msgs = <<>> THEN <<>>
    ELSE (IF Head(msgs).flow = f THEN <<Head(msgs).role>> ELSE <<>>)
         \o RolesOf(Tail(msgs), f)

\* C18: for any interleaving of concurrent requests on one chat and of the
\* title tasks, the messages of each request stand in the chat's message
\* list in the order the request produced them, its user message before its
\* assistant message, none lost and none duplicated
C18_AppendOrdering ==
    \A c \in ChatIds :
       /\ \A f \in Flows :
             /\ RolesOf(chat[c].messages, f) =
                   IF flows[f].cid = c THEN flows[f].produced ELSE <<>>
             /\ IsPrefix(flows[f].produced, <<"user", "assistant">>)
       /\ \A i \in 1..Len(chat[c].messages) : chat[c].messages[i].flow \in Flows

C18_Witness ==
    \E c \in ChatIds :
       /\ \A f \in Flows : flows[f].pc = "done" /\ flows[f].cid = c
       /\ Len(chat[c].messages) >= 4
       /\ chat[c].messages[1].flow # chat[c].messages[2].flow
       /\ chat[c].messages[2].role = "user"
       /\ chat[c].title # 0

\* the flows being served on a chat
FlowsOn(c) == {f \in Flows : flows[f].pc # "idle" /\ flows[f].cid = c}

\* C21: requests on different chat ids, in any interleaving, do not touch
\* each other's chat: the model-facing history and the stored messages of a
\* chat are exactly what its one request made of them, and the request fares
\* (first-message decision, title, messages) as the same request served alone
\* with the same model and tool responses; a chat no request names is untouched
C21_CrossChatIsolation ==
    \A c \in ChatIds :
       /\ FlowsOn(c) = {} =>
             chat[c] = NoChat /\ \A m \in Modules : histories[c][m] = None
       /\ \A f \in FlowsOn(c) :
             FlowsOn(c) = {f} =>
                /\ histories[c][Module(flows[f].orch)] = Some(flows[f].alone.history)
                /\ \A m \in Modules \ {Module(flows[f].orch)} : histories[c][m] = None
                /\ chat[c] = flows[f].alone.chat
                /\ flows[f].first = flows[f].alone.first
                /\ flows[f].title = flows[f].alone.title

C21_Witness ==
    /\ \A f \in Flows : flows[f].pc = "done" /\ flows[f].acted /\ flows[f].title = "done"
    /\ flows[1].cid # flows[2].cid
    /\ flows[1].orch = "ollama" /\ flows[2].orch = "ollama_stream"
    /\ \A c \in ChatIds : Len(chat[c].messages) = 2 /\ chat[c].title # 0

\* the search behind GET /documents/search has returned
Searched == search.pc = "done" /\ search.via = "api"
\* the greatest similarity among the raw hits of a document
HitMax(d) ==
    SetMax({Round3(search.hits[i].score) :
               i \in {k \in 1..Len(search.hits) : search.hits[k].document_id = d}})

\* C22: monotonic ranking: of two documents in the result of search, the one
\* whose maximum similarity over its raw hits is greater comes first,
\* whatever the lexical match counts of their chunks are
C22_MonotonicRanking ==
    Searched =>
       \A i, j \in 1..Len(search.result) :
          HitMax(search.result[i].document_id) > HitMax(search.result[j].document_id)
             => i < j

\* the search_documents tool has returned documents
ToolFound == search.pc = "done" /\ search.via = "tool" /\ search.text.kind = "found"

\* the excerpt of a document as the tool's text presents it: the contents of
\* its chunks and what stands between two of them
RECURSIVE Excerpt(_)
Excerpt(lines) ==
    IF lines = <<>> THEN <<>>
    ELSE (IF Len(lines) > 1 THEN Excerpt(SubSeq(lines, 1, Len(lines) - 1))
                                 \o <<[kind |-> "line"]>>
          ELSE <<>>)
         \o <<lines[Len(lines)][2]>>

\* the merged excerpt of chunk indices in ascending order
RECURSIVE Merged(_)
Merged(indices) ==
    IF indices = <<>> THEN <<>>
    ELSE LET n == Len(indices)
         IN (IF n > 1
             THEN Merged(SubSeq(indices, 1, n - 1))
                  \o (IF indices[n] = indices[n - 1] + 1 THEN <<>>
                      ELSE <<[kind |-> "gap"]>>)
             ELSE <<>>)
            \o <<[kind |-> "content", chunk_index |-> indices[n]]>>

\* the chunk indices of the hits of a document, ascending
RECURSIVE Ascending(_)
Ascending(S) ==
    IF S = {} THEN <<>>
    ELSE LET x == SetMin(S) IN <<x>> \o Ascending(S \ {x})
HitIndices(d) ==
    {search.hits[i].chunk_index :
        i \in {k \in 1..Len(search.hits) : search.hits[k].document_id = d}}

\* C23: contiguous-chunk merge: the excerpt presented for a document is its
\* selected chunks in chunk-index order, consecutive indices concatenated
\* directly and a gap marker between indices that are not consecutive
C23_ContiguousMerge ==
    ToolFound =>
       \A i \in 1..Len(search.text.documents) :
          Excerpt(search.text.documents[i].chunks)
             = Merged(Ascending(HitIndices(search.text.documents[i].id)))

\* a list as a multiset
BagOf(list) ==
    [x \in {list[i] : i \in 1..Len(list)} |->
        Cardinality({i \in 1..Len(list) : list[i] = x})]
\* every group holds chunks of one document, and no two groups the same one
ByDocument(groups) ==
    /\ \A g \in 1..Len(groups) : \A i \in 1..Len(groups[g]) :
          groups[g][i].document_id = groups[g][1].document_id
    /\ \A g, h \in 1..Len(groups) :
          g # h => groups[g][1].document_id # groups[h][1].document_id
\* the chunks of the route's documents, each under the id of its document
RouteGroups ==
    [d \in 1..Len(search.result) |->
        [i \in 1..Len(search.result[d].best_chunks) |->
            [document_id |-> search.result[d].document_id,
             chunk_index |-> search.result[d].best_chunks[i].chunk_index,
             similarity |-> search.result[d].best_chunks[i].similarity]]]
Chunks(list) ==
    [i \in 1..Len(list) |-> [document_id |-> list[i].document_id,
                             chunk_index |-> list[i].chunk_index,
                             similarity |-> list[i].similarity]]
\* the candidate list the grouping of _sort_results_optimally starts from
Candidates ==
    filter_by_text_relevance(Matches(search.hits, search.known, search.query),
                             search.query)

\* C24: grouping chunk hits by document id and flattening the groups again
\* gives the same multiset of chunks: every chunk once, in one group, under
\* its own document id (in _sort_results_optimally, in the route and in the
\* tool)
C24_GroupingPreservesChunks ==
    /\ Searched =>
          /\ BagOf(Flatten(DocumentGroups(Candidates))) = BagOf(Candidates)
          /\ ByDocument(DocumentGroups(Candidates))
          /\ BagOf(Flatten(RouteGroups)) = BagOf(Chunks(search.chunks))
          /\ ByDocument(RouteGroups)
    /\ ToolFound =>
          /\ BagOf(Flatten(documents_scores(search.hits)))
                = BagOf([i \in 1..Len(search.hits) |-> ScoredChunk(search.hits[i])])
          /\ ByDocument(documents_scores(search.hits))

C24_Witness ==
    /\ Searched
    /\ Len(search.hits) = 3
    /\ Len(search.chunks) = 3
    /\ Len(search.result) = 2
    /\ search.chunks[1].chunk_index = 3 /\ search.chunks[2].chunk_index = 7
    /\ search.hits[1].document_id # search.hits[2].document_id
    /\ search.hits[1].document_id = search.hits[3].document_id

\* the words of the query longer than 2 characters, as places of the query
LongWords == {i \in 1..Len(search.query) : search.query[i].len > 2}
\* the word occurs in the content, in whatever case
Occurs(content, w) == \E o \in content.occ : o.w.id = w.id
MatchedWords(content) ==
    Cardinality({i \in LongWords : Occurs(content, search.query[i])})
\* the hits that became matches, and the places of the result
Candidate(i) == search.hits[i].document_id \in search.known
ChunkOf(i) == Corpus(search.hits[i].document_id, search.hits[i].chunk_index)
ResultOf(i) ==
    {k \in 1..Len(search.chunks) :
        /\ search.chunks[k].document_id = search.hits[i].document_id
        /\ search.chunks[k].chunk_index = search.hits[i].chunk_index}

\* C25: lexical pass rule: for a query with a word longer than 2 characters,
\* the chunks retained are exactly those that contain a query word (in any
\* case) or whose similarity (as reported, to three decimals) exceeds 0.8,
\* and a chunk that contains query words carries text_relevance_score =
\* matched words / query words
C25_LexicalPassRule ==
    (Searched /\ LongWords # {}) =>
       \A i \in 1..Len(search.hits) :
          Candidate(i) =>
             /\ (ResultOf(i) # {}) <=>
                   \/ MatchedWords(ChunkOf(i)) > 0
                   \/ Round3(search.hits[i].score) > high_similarity
             /\ Cardinality(ResultOf(i)) <= 1
             /\ \A k \in ResultOf(i) :
                   MatchedWords(ChunkOf(i)) > 0 =>
                      search.chunks[k].text_relevance_score
                         = Some(Relevance(MatchedWords(ChunkOf(i)),
                                          Cardinality(LongWords), FALSE))

C25_Witness ==
    /\ Searched
    /\ Len(search.query) = 2 /\ LongWords = {1, 2}
    /\ search.query[1].up
    /\ Len(search.hits) = 3 /\ \A i \in 1..3 : Candidate(i)
    /\ MatchedWords(ChunkOf(1)) = 0 /\ search.hits[1].score = 8100 /\ ResultOf(1) # {}
    /\ MatchedWords(ChunkOf(2)) = 0 /\ search.hits[2].score = 8004 /\ ResultOf(2) = {}
    /\ MatchedWords(ChunkOf(3)) = 1 /\ search.hits[3].score = 7200 /\ ResultOf(3) # {}
    /\ \E o \in ChunkOf(3).occ : o.w.up

\* the first place of a document in a list of chunks, and its greatest
\* similarity there
FirstPlace(list, d) == SetMin({i \in 1..Len(list) : list[i].document_id = d})
MaxIn(list, d) ==
    SetMax({list[i].similarity : i \in {k \in 1..Len(list) : list[k].document_id = d}})
DocumentsOf(list) == {list[i].document_id : i \in 1..Len(list)}

\* C26: final chunk listing order: in the list search returns, the retained
\* chunks of a document stand together, in strictly ascending chunk index
\* whatever their similarity and lexical score, and documents of equal
\* maximum similarity stand in the order in which the grouping first saw
\* them (the order of the relevance-sorted candidates)
C26_ListingOrder ==
    Searched =>
       /\ \A i, j, k \in 1..Len(search.chunks) :
             (i < j /\ j < k /\ search.chunks[i].document_id = search.chunks[k].document_id)
                => search.chunks[j].document_id = search.chunks[i].document_id
       /\ \A i, j \in 1..Len(search.chunks) :
             (i < j /\ search.chunks[i].document_id = search.chunks[j].document_id)
                => search.chunks[i].chunk_index < search.chunks[j].chunk_index
       /\ \A a, b \in DocumentsOf(search.chunks) :
             ( /\ MaxIn(search.chunks, a) = MaxIn(search.chunks, b)
               /\ FirstPlace(Candidates, a) < FirstPlace(Candidates, b) )
                => FirstPlace(search.chunks, a) < FirstPlace(search.chunks, b)

C26_Witness ==
    /\ Searched
    /\ Len(search.chunks) = 3
    /\ Candidates[1].document_id = Candidates[3].document_id
    /\ Candidates[1].document_id # Candidates[2].document_id
    /\ Candidates[1].chunk_index > Candidates[3].chunk_index
    /\ Candidates[1].similarity > Candidates[3].similarity
    /\ MaxIn(search.chunks, 1) = MaxIn(search.chunks, 2)
    /\ search.chunks[1].document_id = Candidates[1].document_id
    /\ search.chunks[1].chunk_index = Candidates[3].chunk_index

\* C27: over-fetch: a search with result limit L asks the gateway for
\* L * K raw hits with K between 3 and 5, and returns at most L documents
C27_OverFetch ==
    /\ search.pc # "idle" =>
          /\ search.requested >= 3 * search.limit
          /\ search.requested <= 5 * search.limit
    /\ Searched => Len(search.result) <= search.limit
    /\ ToolFound => Len(search.text.documents) <= search.limit

\* the offsets at which a query word (longer than 2 characters, in any case)
\* occurs in a content
Offsets(content) ==
    {o.pos : o \in {x \in content.occ :
                       \E i \in LongWords : search.query[i].id = x.w.id}}
\* the preview of a content when the window starts lead characters before
\* the earliest offset
Windowed(content, lead) ==
    IF content.len <= max_length THEN Preview(0, content.len, FALSE, FALSE)
    ELSE IF Offsets(content) = {} THEN Preview(0, max_length, FALSE, TRUE)
    ELSE LET start == IF SetMin(Offsets(content)) > lead
                      THEN SetMin(Offsets(content)) - lead ELSE 0
             end == IF start + max_length < content.len THEN start + max_length
                    ELSE content.len
         IN Preview(start, end, start > 0, end < content.len)

\* C28: preview windowing (as claimed): the window of a chunk longer than
\* the maximum is centred on the earliest offset of a query word, that is, it
\* starts half the maximum length before it (clamped to 0); ellipses mark the
\* cut sides; without a query word the leading window; a chunk not longer
\* than the maximum unchanged
C28_PreviewCentred ==
    Searched =>
       \A k \in 1..Len(search.chunks) :
          search.chunks[k].chunk
             = Windowed(search.chunks[k].full_chunk, max_length \div 2)

\* C28 (amended): the same with the window starting 50 characters before
\* the earliest offset of a query word
C28_PreviewWindow ==
    Searched =>
       \A k \in 1..Len(search.chunks) :
          search.chunks[k].chunk = Windowed(search.chunks[k].full_chunk, preview_lead)

C28_Witness ==
    /\ Searched
    /\ \E k \in 1..Len(search.chunks) :
          /\ search.chunks[k].chunk_length > max_length
          /\ search.chunks[k].chunk = Preview(330, 630, TRUE, TRUE)
    /\ \E k \in 1..Len(search.chunks) :
          search.chunks[k].chunk = Preview(0, max_length, FALSE, TRUE)

\* C29: in the relevance-sorted candidate list of the lexical pass, a chunk
\* retained only through the high-similarity exception (no query word in
\* it) never stands before a chunk that contains a query word, for every
\* query length and every match count
C29_ExceptionRanksLast ==
    (Searched /\ LongWords # {}) =>
       \A i, j \in 1..Len(Candidates) :
          ( /\ MatchedWords(Candidates[i].full_chunk) = 0
            /\ MatchedWords(Candidates[j].full_chunk) > 0 )
             => j < i

\* the Sources the recorded invocations stand for: those of the successful
\* search_documents invocations whose output was a list of per-document
\* records with best_chunks, in order
RECURSIVE SourcesOf(_)
SourcesOf(n) ==
    IF n = 0 THEN <<>>
    ELSE SourcesOf(n - 1)
         \o (IF /\ tool_calls[n].name = "search_documents"
                /\ tool_calls[n].success
                /\ <<n, "docs">> \in shapeLog
             THEN <<Source(n)>> ELSE <<>>)

ReceivedFor(i) == SelectSeq(received, LAMBDA f : f.index = i)

RECURSIVE Concatenated(_)
Concatenated(frags) ==
    IF frags = <<>> THEN <<>> ELSE Head(frags).args \o Concatenated(Tail(frags))

\* the last non-empty id / name among fragments, "" when there is none
LastId(frags) ==
    LET S == {k \in 1..Len(frags) : frags[k].id # ""}
    IN IF S = {} THEN "" ELSE frags[SetMax(S)].id
LastName(frags) ==
    LET S == {k \in 1..Len(frags) : frags[k].name # ""}
    IN IF S = {} THEN "" ELSE frags[SetMax(S)].name

\* C31: whatever fragments the stream has delivered, in whatever order of
\* indices, the accumulated tool call at position i has as arguments the
\* concatenation in arrival order of the argument pieces tagged with index i,
\* as name and id the last non-empty name and id received for index i, and
\* there are as many accumulated tool calls as the highest index received
\* plus one; so the record of an index depends on the fragments of that
\* index alone.
C31_IndexedAccumulation ==
    /\ Len(accumulated_tool_calls) =
          IF received = <<>> THEN 0
          ELSE SetMax({received[k].index : k \in 1..Len(received)}) + 1
    /\ \A i \in 0..(Len(accumulated_tool_calls) - 1) :
          LET tc == accumulated_tool_calls[i + 1]
          IN /\ tc.args = Concatenated(ReceivedFor(i))
             /\ tc.name = LastName(ReceivedFor(i))
             /\ tc.id = LastId(ReceivedFor(i))

\* fragments of two indices interleave, and the later fragment of an index
\* brings another id, another name and more of the arguments
C31_Witness ==
    /\ Len(received) = 3
    /\ received[1].index = 2 /\ received[2].index = 0 /\ received[3].index = 2
    /\ received[1].args = <<"{">> /\ received[3].args = <<"}">>
    /\ received[1].name = "search_documents" /\ received[3].name = "search_rules"
    /\ received[1].id = "call_a" /\ received[3].id = "call_b"
    /\ received[2].args # <<>>
    /\ accumulated_tool_calls[3].args = <<"{", "}">>

\* the last assistant message of the history that requests invocations
\* (0 when there is none)
LastRequesting ==
    LET S == {i \in 1..Len(chat_history) :
                 chat_history[i].role = "assistant" /\ chat_history[i].ntools > 0}
    IN IF S = {} THEN 0 ELSE SetMax(S)

\* a model call that follows an Acting round: the history ends with the
\* round's assistant message and the tool messages appended after it
AfterActing ==
    /\ ModelCallStarts
    /\ LastRequesting > LastUser
    /\ \A j \in (LastRequesting + 1)..Len(chat_history) :
           chat_history[j].role = "tool"

\* C32: at every model call that follows an Acting round, the history holds
\* after the preceding assistant message one tool message for each
\* invocation that message requested, failed and unknown ones included
C32_ToolResultPairing ==
    [][AfterActing =>
          Len(chat_history) - LastRequesting = chat_history[LastRequesting].ntools]_vars

\* the messages of a turn stand together: every message after the system
\* message was appended by the request whose user message precedes it most
\* closely
Turnwise(h) ==
    \A i \in 2..Len(h) :
       LET U == {u \in 2..i : h[u].role = "user"}
       IN U # {} /\ h[SetMax(U)].flow = h[i].flow

\* between an assistant message that requests invocations and a tool message
\* of the same request stand only messages of that request
RoundsIntact(h) ==
    \A i \in 2..Len(h), k \in 2..Len(h) :
       ( /\ i < k
         /\ h[i].role = "assistant" /\ h[i].ntools > 0
         /\ h[k].role = "tool" /\ h[k].flow = h[i].flow )
       => \A j \in (i + 1)..(k - 1) : h[j].flow = h[i].flow

\* C33: two runs on one chat id that interleave at their awaits leave each
\* other's round intact in the shared history: no message of one run stands
\* between an assistant tool-call message of the other and that round's tool
\* messages, and the history a run hands to a model call holds after each
\* user message the messages of that turn up to the next user message
C33_RoundsNotCorrupted ==
    [][\A f \in Flows :
          (flows'[f].pc = "model" /\ flows[f].pc # "model") =>
              /\ RoundsIntact(FlowHistory(f)')
              /\ Turnwise(FlowHistory(f)')]_vars

\* C34: clear_chat_history(c) racing with a run in flight on c: from the
\* clear on, the entry of c that a later run of the module loads is the
\* system message followed only by messages of runs that began after the
\* clear; what a run that held the list before the clear appends afterwards
\* (model responses, tool results) never shows in it
C34_ClearIsolates ==
    \A c \in ChatIds, m \in Modules :
       histories[c][m] # None =>
          LET h == histories[c][m][1]
          IN /\ h[1] = Msg("system", 0)
             /\ \A i \in 2..Len(h) : flows[h[i].flow].stale = None

\* a run appended to its list after the clear, and a later run on the chat
\* loaded the system message alone
C34_Witness ==
    /\ flows[1].stale # None
    /\ flows[1].pc = "done"
    /\ Len(flows[1].stale[1]) > flows[1].cut + 1
    /\ flows[2].pc = "done" /\ flows[2].stale = None
    /\ flows[2].cid = flows[1].cid
    /\ Module(flows[2].orch) = Module(flows[1].orch)
    /\ flows[2].first
    /\ Len(histories[flows[2].cid][Module(flows[2].orch)][1]) = 3

\* the calls of the store a flow made in a step returned False
ReturnedFalse(f) ==
    \A i \in (Len(flows[f].returned) + 1)..Len(flows'[f].returned) :
       ~flows'[f].returned[i]

\* C36: delete_chat(c) racing with a run in flight or a pending title task
\* on c: once the chat is deleted every add_message and update_chat_title
\* for c returns False and the store stays without c, and the run ends as
\* the same run does with its chat in place, with its answer and no error
C36_DeletedStaysDeleted ==
    /\ [][\A c \in ChatIds :
             ~chat[c].exists =>
                /\ chat'[c] = Deleted
                /\ \A f \in Flows : flows'[f].cid = c => ReturnedFalse(f)]_vars
    /\ [](\A f \in Flows :
             flows[f].pc = "done" => flows[f].outcome = flows[f].alone.outcome)

\* the chat was deleted while the run awaited the model: the answer was not
\* stored, the title was not set, and the run ended with its answer
C36_Witness ==
    /\ ~chat[1].exists
    /\ flows[1].pc = "done" /\ flows[1].cid = 1
    /\ flows[1].outcome = "answer"
    /\ flows[1].title = "done"
    /\ flows[1].returned = <<TRUE, FALSE, FALSE>>

\* the events of the last iteration of the run
FinalIteration ==
    LET S == {i \in 1..Len(events) : events[i].type = "iteration"}
    IN IF S = {} THEN <<>> ELSE SubSeq(events, SetMax(S), Len(events))

\* the length of the concatenation of the content_chunk payloads among events
RECURSIVE Streamed(_)
Streamed(evs) ==
    IF evs = <<>> THEN 0
    ELSE (IF Head(evs).type = "content_chunk" THEN Head(evs).n ELSE 0)
         + Streamed(Tail(evs))

\* the model streamed a final answer: content arrived in the last iteration,
\* which ended the loop without tool calls
StreamedFinalAnswer ==
    /\ orch \in Streaming
    /\ Done /\ outcome.kind = "complete"
    /\ exitWhy = "final"
    /\ "content_start" \in Types(FinalIteration)

\* C35: in a streaming run that ends with complete after the model streamed
\* a final answer, the content of the complete event and of the persisted
\* assistant message is the concatenation, in emission order, of the
\* payloads of the content_chunk events of the final iteration
C35_CompleteEqualsStreamed ==
    StreamedFinalAnswer =>
       /\ outcome.content.len = Streamed(FinalIteration)
       /\ LastMessage.role = "assistant"
       /\ LastMessage.content = outcome.content

\* a step in which an attempt of a tool-enabled model call fails
AttemptFails == retry_count' > retry_count

\* C37: bounded retry in the OpenAI orchestrators: a tool-enabled model call
\* is attempted at most max_retries = 2 times; a failed attempt appends
\* nothing to the history (nor to the store); a success continues the run in
\* the same way whether it is the first or the second attempt; and after the
\* second consecutive failure no model call follows and the run ends with an
\* error outcome
C37_BoundedRetry ==
    [][(orch \in {"openai", "openai_stream"}) =>
          ( /\ retry_count' <= max_retries
            /\ AttemptFails =>
                  /\ retry_count' = retry_count + 1
                  /\ pc \in {"loop", "open"}
                  /\ chat_history' = chat_history
                  /\ messages' = messages
            /\ (pc = "loop" /\ pc' \in {"act", "finalize"}) =>
                  /\ response' # None
                  /\ retry_count' = retry_count
                  /\ pending' = response'[1].tools
                  /\ final_content' = response'[1].content
                  /\ chat_history' =
                        IF response'[1].tools = <<>> THEN chat_history
                        ELSE Append(chat_history,
                                    Msg("assistant", Len(response'[1].tools)))
            /\ (pc = "open" /\ pc' = "stream") =>
                  /\ retry_count' = retry_count
                  /\ chat_history' = chat_history
                  /\ events' = events
                  /\ accumulated_tool_calls' = <<>>
                  /\ chunk_count' = 0 /\ ~content_started'
            /\ retry_count' = max_retries =>
                  /\ pc' \in {"except", "except_timeout", "done"}
                  /\ pc' = "done" => ~Normal'
            /\ retry_count = max_retries => (~ModelCallStarts) )]_vars

\* the first attempt timed out and the second brought tool calls
C37_Witness ==
    /\ orch = "openai"
    /\ retry_count = 1 /\ llmFaults = {"timeout"}
    /\ pc = "act" /\ pending # <<>>

\* ---------------------------------------------------------------------------
\* The rule and document stores: PostgreSQL rows written through a
\* request-scoped session, Qdrant points written at once
\* ---------------------------------------------------------------------------

store_unchanged == <<orch, pc, chat_history, messages, is_first_message, iteration,
                     retry_count, response, pending, accumulated_tool_calls,
                     has_successful_tool, tool_calls, sources, reasoning, bound,
                     final_content, accumulated_content, content_started,
                     chunk_count, events, outcome, title_tasks, variations,
                     roundLog, llmFaults, streamFailed, exitWhy, retrievalFailed,
                     shapeLog, chat_histories, flows, chat, histories, search,
                     received>>

\* the request's position moves on
At(store, o, pc2) == [store EXCEPT !.ops[o].pc = pc2]

\* a row lock of PostgreSQL: an UPDATE or DELETE of a row waits while another
\* session holds the row
Free(store, o, id) == store.lock[id] \in {0, o}

\* the statement locks the row it matches; it matches none when the row is gone
Locked(store, o, id) ==
    IF id \in store.rows THEN [store EXCEPT !.lock[id] = o] ELSE store

\* the session's locks are released when its transaction ends
Released(store, o) ==
    [store EXCEPT !.lock = [r \in DOMAIN store.lock |->
                               IF store.lock[r] = o THEN 0 ELSE store.lock[r]]]

\* the request-scoped session is closed without a commit: what the session
\* wrote is discarded
Closed_Kept(store, o) ==
    At([Released(store, o) EXCEPT
           !.rows = {r \in store.rows : store.lock[r] # o}], o, "raised")
Closed(store, o) == At(Released(store, o), o, "raised")

\* the commit makes the session's writes visible: the created row appears, the
\* deleted row disappears
Committed(store, o) ==
    LET op == store.ops[o]
        rows == CASE op.kind = "create" -> store.rows \cup {op.id}
                  [] op.kind = "delete" /\ store.lock[op.id] = o ->
                         store.rows \ {op.id}
                  [] OTHER -> store.rows
    IN At([Released(store, o) EXCEPT !.rows = rows], o, "done")

\* filter delete: every point of the entity is removed
delete_embeddings(store, id) == [store EXCEPT !.points[id] = 0]

\* upsert of one point under a new uuid
create_embeddings(store, id) == [store EXCEPT !.points[id] = @ + 1]

\* a rule request arrives: create with a new id, update with or without
\* fields set, delete
RuleRequest(o) ==
    /\ rule_store.ops[o].pc = "idle"
    /\ \E kind \in {"create", "update", "delete"}, id \in RuleIds, data \in BOOLEAN :
          /\ kind = "create" =>
                /\ id \notin rule_store.rows
                /\ \A p \in RuleOps : ~(rule_store.ops[p].kind = "create"
                                        /\ rule_store.ops[p].id = id)
                /\ data
          /\ kind = "delete" => ~data
          /\ rule_store' = [rule_store EXCEPT !.ops[o] =
                 [kind |-> kind, id |-> id, data |-> data, wrote |-> FALSE,
                  pc |-> IF kind = "create" THEN "create" ELSE "get"]]
    /\ UNCHANGED <<document_store, store_unchanged>>

\* update.py lines 31-33, delete.py lines 23-25: the rule is read, 404 if absent
RuleGet(o) ==
    LET op == rule_store.ops[o] IN
    /\ op.pc = "get"
    /\ rule_store' = IF op.id \in rule_store.rows
                     THEN At(rule_store, o, op.kind)
                     ELSE Closed(rule_store, o)
    /\ UNCHANGED <<document_store, store_unchanged>>

\* create.py line 42: the row is added and flushed, not yet committed
RuleCreate(o) ==
    /\ rule_store.ops[o].pc = "create"
    /\ rule_store' = At(rule_store, o, "create_embeddings")
    /\ UNCHANGED <<document_store, store_unchanged>>

\* update.py line 39: no statement is issued when no field is set
RuleUpdate(o) ==
    LET op == rule_store.ops[o] IN
    /\ op.pc = "update"
    /\ op.data => Free(rule_store, o, op.id)
    /\ rule_store' = At(IF op.data THEN Locked(rule_store, o, op.id) ELSE rule_store,
                        o, "delete_embeddings")
    /\ UNCHANGED <<document_store, store_unchanged>>

\* delete.py line 26
RuleDelete(o) ==
    LET op == rule_store.ops[o] IN
    /\ op.pc = "delete"
    /\ Free(rule_store, o, op.id)
    /\ rule_store' = At(Locked(rule_store, o, op.id), o, "delete_embeddings")
    /\ UNCHANGED <<document_store, store_unchanged>>

\* update.py line 41, delete.py line 27
RuleDeleteEmbeddings(o) ==
    LET op == rule_store.ops[o] IN
    /\ op.pc = "delete_embeddings"
    /\ rule_store' = At(delete_embeddings(rule_store, op.id), o,
                        IF op.kind = "update" THEN "create_embeddings" ELSE "commit")
    /\ UNCHANGED <<document_store, store_unchanged>>

\* create.py lines 52-63, update.py lines 51-62
RuleCreateEmbeddings(o) ==
    LET op == rule_store.ops[o] IN
    /\ op.pc = "create_embeddings"
    /\ rule_store' = At(create_embeddings(rule_store, op.id), o, "commit")
    /\ UNCHANGED <<document_store, store_unchanged>>

\* create.py line 65, update.py line 63, delete.py line 28
RuleCommit(o) ==
    /\ rule_store.ops[o].pc = "commit"
    /\ rule_store' = Committed(rule_store, o)
    /\ UNCHANGED <<document_store, store_unchanged>>

\* the arguments delete_document_embeddings requires after self, and the
\* arguments execute passes
RequiredArguments == 2
PassedArguments(id) == <<id>>
Accepts(arguments) == Len(arguments) = RequiredArguments

\* a delete request for a document arrives
DocumentRequest(o) ==
    /\ document_store.ops[o].pc = "idle"
    /\ \E id \in StoredDocuments :
          document_store' = [document_store EXCEPT !.ops[o] =
              [kind |-> "delete", id |-> id, data |-> FALSE, wrote |-> FALSE,
               pc |-> "get"]]
    /\ UNCHANGED <<rule_store, store_unchanged>>

\* documents/delete.py lines 18-20
DocumentGet(o) ==
    LET op == document_store.ops[o] IN
    /\ op.pc = "get"
    /\ document_store' = IF op.id \in document_store.rows
                         THEN At(document_store, o, "delete")
                         ELSE Closed(document_store, o)
    /\ UNCHANGED <<rule_store, store_unchanged>>

\* documents/delete.py line 21: the DELETE is executed, or the database fails
DocumentDelete(o) ==
    LET op == document_store.ops[o] IN
    /\ op.pc = "delete"
    /\ Free(document_store, o, op.id)
    /\ \E fails \in BOOLEAN :
          document_store' =
              IF fails THEN Closed(document_store, o)
              ELSE [At(Locked(document_store, o, op.id), o, "delete_embeddings")
                       EXCEPT !.ops[o].wrote = TRUE]
    /\ UNCHANGED <<rule_store, store_unchanged>>

\* documents/delete.py lines 22-25: the call of delete_document_embeddings and
\* what follows it. The call binds its arguments before anything is sent to
\* the vector store, and raises when a required one is missing.
DocumentFinish(o) ==
    LET op == document_store.ops[o] IN
    /\ op.pc \in {"delete_embeddings", "commit"}
    /\ \E fails \in BOOLEAN :
          document_store' =
              IF op.pc = "delete_embeddings"
              THEN IF Accepts(PassedArguments(op.id)) /\ ~fails
                   THEN At(delete_embeddings(document_store, op.id), o, "commit")
                   ELSE Closed(document_store, o)
              ELSE IF fails THEN Closed(document_store, o)
                   ELSE Committed(document_store, o)
    /\ UNCHANGED <<rule_store, store_unchanged>>

StoreInit == Init /\ orch = "ollama"

StoreNext ==
    \/ \E o \in RuleOps :
          \/ RuleRequest(o)
          \/ RuleGet(o)
          \/ RuleCreate(o)
          \/ RuleUpdate(o)
          \/ RuleDelete(o)
          \/ RuleDeleteEmbeddings(o)
          \/ RuleCreateEmbeddings(o)
          \/ RuleCommit(o)
    \/ \E o \in DocumentOps :
          \/ DocumentRequest(o)
          \/ DocumentGet(o)
          \/ DocumentDelete(o)
          \/ DocumentFinish(o)

StoreSpec == StoreInit /\ [][StoreNext]_vars

\* every rule request that was made has returned normally
RulesAtRest ==
    \A o \in RuleOps : rule_store.ops[o].pc \in {"idle", "done"}

\* C38: once create, partial-update and delete rule requests, however
\* interleaved, have all returned normally, the rules embedding collection
\* holds exactly one point for every rule of the table and none for any other
C38_RuleEmbeddingConsistency ==
    RulesAtRest =>
        \A r \in RuleIds :
            rule_store.points[r] = IF r \in rule_store.rows THEN 1 ELSE 0

\* a delete request for a document that has returned, normally or by an
\* exception
Terminated(o) == document_store.ops[o].pc \in {"done", "raised"}

====
